---- MODULE Spec2Model ----
(***************************************************************************)
(* State-machine model of the Brand application's data layer:              *)
(*   - JsonFileService: scan/merge of invoice JSON files and the           *)
(*     per-identifier store of edited items;                               *)
(*   - SecondTabScreen.loadItems: overlay of edited items on a scan;       *)
(*   - DatabaseService: paginated listing and search of brand records.     *)
(*                                                                         *)
(* Conventions.  A JavaScript optional value is a sequence of length at    *)
(* most one: None is the missing/undefined value, Some(v) a present one.   *)
(* A JavaScript string whose characters matter (company names, record      *)
(* names, search terms) is a sequence of one-character strings.            *)
(***************************************************************************)
EXTENDS Integers, Sequences, FiniteSets, TLC

VARIABLES
    files,        \* invoices directory: the .json files in enumeration order
    editStore,    \* edited_items directory: file name (item id) -> file text
    exportsDir,   \* exports directory: the set of paths of files in it
    clock,        \* the wall clock read by new Date()
    last,         \* the last service call: its name, arguments and result
    tables,       \* output.sqlite: its user tables in sqlite_master order
    db,           \* DatabaseService.db: the open connection, if any
    isDBInitialized,
    actualTableName,
    cachedTotalRecords,
    needsSampleData,
    hasIndexOnName,
    screen,       \* the mounted record list screen: its React state, the state
                  \* its last render captured, its load-more fetches in flight
    calls,        \* the service calls in flight: each one's position in initDB
    connections   \* the connections openDatabase has handed out

fileVars == <<files, editStore, exportsDir, clock>>
dbVars == <<tables, db, isDBInitialized, actualTableName, cachedTotalRecords,
            needsSampleData, hasIndexOnName>>
asyncVars == <<screen, calls, connections>>
vars == <<fileVars, dbVars, asyncVars, last>>

None == <<>>
Some(v) == <<v>>
IsSome(o) == o # <<>>
Get(o) == o[1]

Min(a, b) == IF a < b THEN a ELSE b
Max(a, b) == IF a > b THEN a ELSE b

(***************************************************************************)
(* Strings as character sequences.                                         *)
(***************************************************************************)
\* String.prototype.toLowerCase on the characters the model uses.
LowerChar(c) ==
    CASE c = "A" -> "a"
      [] c = "B" -> "b"
      [] c = "C" -> "c"
      [] OTHER -> c

ToLowerCase(s) == [i \in 1..Len(s) |-> LowerChar(s[i])]

\* String.prototype.includes: needle occurs as a contiguous substring.
Includes(s, needle) ==
    \E i \in 0..(Len(s) - Len(needle)) :
        \A j \in 1..Len(needle) : s[i + j] = needle[j]

(***************************************************************************)
(* Dates.  new Date(text) parses a date string to an instant (here: the    *)
(* day number since the epoch); an unparseable text gives an Invalid Date, *)
(* whose value is NaN and which compares false with everything.            *)
(***************************************************************************)
DateParse(text) ==
    CASE text = "2024-01-01" -> Some(19723)
      [] text = "2024-01-01T00:00:00.000Z" -> Some(19723)
      [] text = "2024-02-01" -> Some(19754)
      [] text = "2024-03-01" -> Some(19783)
      [] OTHER -> None

\* newDate > existingDate on two Date objects (valueOf comparison; NaN is
\* greater than nothing and nothing is greater than NaN).
DateGreater(a, b) == IsSome(a) /\ IsSome(b) /\ Get(a) > Get(b)

\* item.updatedDt ? new Date(item.updatedDt) : new Date(item.censoredDt)
\* (an empty updatedDt string is falsy, like a missing one).
EffectiveDate(item) ==
    IF IsSome(item.updatedDt) /\ Get(item.updatedDt) # ""
    THEN DateParse(Get(item.updatedDt))
    ELSE DateParse(item.censoredDt)

(***************************************************************************)
(* JsonFileService.scanJsonItems                                           *)
(***************************************************************************)
\* readJsonFile, as far as the forEach of the caller gets with what it
\* returns: the parsed documents, or [] when reading or parsing throws.  A
\* file whose JSON is not an array makes items.forEach throw in the caller,
\* which skips the file: it contributes no item either.  A file whose
\* array holds a null element after some documents makes the callback
\* throw on that element (item.id of null): the documents before it have
\* been through the callback, the file is left at that point.
ReadJsonFile(file) ==
    IF file.kind \in {"array", "nullElement"} THEN file.items ELSE <<>>

\* The two filter tests at the head of the forEach callback.
PassesFilters(item, options) ==
    /\ (IsSome(options.idFilter) => item.id = Get(options.idFilter))
    /\ (IsSome(options.companyFilter) /\ Get(options.companyFilter) # <<>>)
          => /\ item.objCompany # <<>>
             /\ Includes(ToLowerCase(item.objCompany),
                         ToLowerCase(Get(options.companyFilter)))

\* MergeItem with the date comparison turned around (keeps the older copy).
MergeItemOlder(itemsMap, item, options) ==
    IF ~PassesFilters(item, options) THEN itemsMap
    ELSE IF item.id \in DOMAIN itemsMap
         THEN IF DateGreater(EffectiveDate(itemsMap[item.id]), EffectiveDate(item))
              THEN [itemsMap EXCEPT ![item.id] = item]
              ELSE itemsMap
         ELSE [k \in DOMAIN itemsMap \cup {item.id} |->
                  IF k = item.id THEN item ELSE itemsMap[k]]

\* MergeItem replacing on >= instead of > (a tie takes the later copy).
MergeItemOnTie(itemsMap, item, options) ==
    IF ~PassesFilters(item, options) THEN itemsMap
    ELSE IF item.id \in DOMAIN itemsMap
         THEN IF ~DateGreater(EffectiveDate(itemsMap[item.id]), EffectiveDate(item))
              THEN [itemsMap EXCEPT ![item.id] = item]
              ELSE itemsMap
         ELSE [k \in DOMAIN itemsMap \cup {item.id} |->
                  IF k = item.id THEN item ELSE itemsMap[k]]

\* MergeItem comparing the dates before it applies the filters: a newer
\* copy that fails the filters displaces the accumulated one.
MergeItemFilterLast(itemsMap, item, options) ==
    IF item.id \in DOMAIN itemsMap
    THEN IF DateGreater(EffectiveDate(item), EffectiveDate(itemsMap[item.id]))
         THEN IF PassesFilters(item, options)
              THEN [itemsMap EXCEPT ![item.id] = item]
              ELSE [k \in DOMAIN itemsMap \ {item.id} |-> itemsMap[k]]
         ELSE itemsMap
    ELSE IF PassesFilters(item, options)
         THEN [k \in DOMAIN itemsMap \cup {item.id} |->
                  IF k = item.id THEN item ELSE itemsMap[k]]
         ELSE itemsMap

\* One invocation of the forEach callback on the accumulating itemsMap.
MergeItem(itemsMap, item, options) ==
    IF ~PassesFilters(item, options) THEN itemsMap
    ELSE IF item.id \in DOMAIN itemsMap
         THEN IF DateGreater(EffectiveDate(item), EffectiveDate(itemsMap[item.id]))
              THEN [itemsMap EXCEPT ![item.id] = item]
              ELSE itemsMap
         ELSE [k \in DOMAIN itemsMap \cup {item.id} |->
                  IF k = item.id THEN item ELSE itemsMap[k]]

RECURSIVE MergeItems(_, _, _)
MergeItems(itemsMap, items, options) ==
    IF items = <<>> THEN itemsMap
    ELSE MergeItems(MergeItem(itemsMap, Head(items), options), Tail(items), options)

RECURSIVE MergeFiles(_, _, _)
MergeFiles(itemsMap, jsonFiles, options) ==
    IF jsonFiles = <<>> THEN itemsMap
    ELSE MergeFiles(MergeItems(itemsMap, ReadJsonFile(Head(jsonFiles)), options),
                    Tail(jsonFiles), options)

\* SortById with the comparator turned around (b.id - a.id).
RECURSIVE SortByIdDescending(_)
SortByIdDescending(itemsMap) ==
    IF DOMAIN itemsMap = {} THEN <<>>
    ELSE LET hi == CHOOSE k \in DOMAIN itemsMap : \A m \in DOMAIN itemsMap : k >= m
         IN <<itemsMap[hi]>> \o
            SortByIdDescending([k \in DOMAIN itemsMap \ {hi} |-> itemsMap[k]])

\* Array.from(itemsMap.values()).sort((a, b) => a.id - b.id)
RECURSIVE SortById(_)
SortById(itemsMap) ==
    IF DOMAIN itemsMap = {} THEN <<>>
    ELSE LET lo == CHOOSE k \in DOMAIN itemsMap : \A m \in DOMAIN itemsMap : k <= m
         IN <<itemsMap[lo]>> \o
            SortById([k \in DOMAIN itemsMap \ {lo} |-> itemsMap[k]])

EmptyMap == [k \in {} |-> None]

ScanJsonItems(jsonFiles, options) ==
    IF Len(jsonFiles) = 0 THEN <<>>
    ELSE SortById(MergeFiles(EmptyMap, jsonFiles, options))

(***************************************************************************)
(* Documents and invoice files the scan is exercised on.                   *)
(***************************************************************************)
MaxDocs == 3   \* documents in the invoices directory, over all files

JsonItem(id, fullInvoiceName, objCompany, censoredDt, updatedDt, mainRegisters, editStatus) ==
    [id |-> id, fullInvoiceName |-> fullInvoiceName, objCompany |-> objCompany,
     censoredDt |-> censoredDt, updatedDt |-> updatedDt,
     mainRegisters |-> mainRegisters, editStatus |-> editStatus]

\* (censoredDt, updatedDt) pairs: no update; a later update; an update that
\* is earlier than the primary date and written in another format.
ScanStamps ==
    { <<"2024-01-01", None>>,
      <<"2024-01-01", Some("2024-02-01")>>,
      <<"2024-03-01", Some("2024-01-01T00:00:00.000Z")>> }

ScanCompanies == { <<"A", "c">>, <<"b">> }

ScanDocs ==
    { JsonItem(1, "INV", co, st[1], st[2], Some(<<>>), None) :
        co \in ScanCompanies, st \in ScanStamps }
    \cup
    { JsonItem(2, "INV", co, "2024-01-01", u, Some(<<>>), None) :
        co \in ScanCompanies, u \in {None, Some("2024-02-01")} }

\* The elements a..b of a sequence (empty when b < a).
Slice(s, a, b) == [i \in 1..(b - a + 1) |-> s[a + i - 1]]

SeqsUpTo(S, n) == UNION { [1..k -> S] : k \in 0..n }

ArrayFile(items) == [kind |-> "array", items |-> items]
BadFile == [kind |-> "unparseable", items |-> <<>>]
NotArrayFile == [kind |-> "notArray", items |-> <<>>]
\* The array [items..., null]
NullElementFile(items) == [kind |-> "nullElement", items |-> items]

\* Directory listings of the documents d: one file, two files splitting d
\* at any point, one file next to a file that cannot be parsed or that
\* holds no array, a file whose array ends in a null element followed by a
\* well-formed file; and the empty directory when there is no document.
ScanDirectories(d) ==
    { <<ArrayFile(d)>>, <<BadFile, ArrayFile(d)>>, <<ArrayFile(d), NotArrayFile>> }
    \cup (IF d = <<>> THEN {}
          ELSE {<<NullElementFile(Slice(d, 1, 1)), ArrayFile(Slice(d, 2, Len(d)))>>})
    \cup { <<ArrayFile(Slice(d, 1, c)), ArrayFile(Slice(d, c + 1, Len(d)))>> :
              c \in 0..Len(d) }
    \cup (IF d = <<>> THEN {<<>>} ELSE {})

ScanOptions ==
    { [idFilter |-> None, companyFilter |-> None],
      [idFilter |-> None, companyFilter |-> Some(<<>>)],
      [idFilter |-> Some(1), companyFilter |-> None],
      [idFilter |-> None, companyFilter |-> Some(<<"a", "C">>)] }

NoCall == [op |-> "none"]

\* No screen is mounted and no call is in flight: the services are driven
\* one call at a time.
NoScreen == [mounted |-> "none"]

OneCallAtATime ==
    /\ screen = NoScreen
    /\ calls = <<>>
    /\ connections = [opened |-> 0, sinceClose |-> 0, closes |-> 0, used |-> {}]

\* DatabaseService: the default table name, and the fields as the class
\* initialises them.
TABLE_NAME == "records"

DatabaseServiceConstructed ==
    /\ db = None
    /\ isDBInitialized = FALSE
    /\ actualTableName = "records"
    /\ cachedTotalRecords = 0
    /\ needsSampleData = FALSE
    /\ hasIndexOnName = FALSE

\* JsonFileService is constructed next to an empty store of edited items
\* and an empty exports directory.
JsonFileServiceConstructed ==
    /\ editStore = EmptyMap
    /\ exportsDir = {}
    /\ clock = 0

InitScan ==
    /\ \E d \in SeqsUpTo(ScanDocs, MaxDocs) : files \in ScanDirectories(d)
    /\ JsonFileServiceConstructed
    /\ tables = <<>>
    /\ DatabaseServiceConstructed
    /\ OneCallAtATime
    /\ last = NoCall

\* A caller invokes scanJsonItems(options) on the directory.
Scan(options) ==
    /\ last' = [op |-> "scanJsonItems", options |-> options,
                result |-> ScanJsonItems(files, options)]
    /\ UNCHANGED <<files, editStore, exportsDir, clock>>
    /\ UNCHANGED <<dbVars, asyncVars>>

NextScan == \E options \in ScanOptions : Scan(options)

SpecScan == InitScan /\ [][NextScan]_vars

(***************************************************************************)
(* JSON text.  JSON.stringify writes the properties of an object whose     *)
(* value is not undefined; JSON.parse gives back an object in which the    *)
(* properties that were not written are missing.  A JSON object is a       *)
(* record whose field set is the set of written properties.                *)
(***************************************************************************)
OptionalKeys(o, keys) == { k \in keys : IsSome(o[k]) }

Field(text, k) == IF k \in DOMAIN text THEN Some(text[k]) ELSE None

StringifyRegister(r) ==
    [k \in {"name", "brand", "totalSpace"} \cup OptionalKeys(r, {"currentAmount"}) |->
        IF k = "currentAmount" THEN Get(r[k]) ELSE r[k]]

ParseRegister(text) ==
    [name |-> text.name, brand |-> text.brand, totalSpace |-> text.totalSpace,
     currentAmount |-> Field(text, "currentAmount")]

EditStatusKeys == {"saved", "exported", "lastSaved", "lastExported", "exportPath"}

StringifyEditStatus(e) ==
    [k \in OptionalKeys(e, EditStatusKeys) |-> Get(e[k])]

ParseEditStatus(text) == [k \in EditStatusKeys |-> Field(text, k)]

\* JSON.stringify(item, null, 2)
JsonStringify(item) ==
    [k \in {"id", "fullInvoiceName", "objCompany", "censoredDt"}
            \cup OptionalKeys(item, {"updatedDt", "mainRegisters", "editStatus"}) |->
        CASE k = "updatedDt" -> Get(item.updatedDt)
          [] k = "mainRegisters" ->
                [i \in 1..Len(Get(item.mainRegisters)) |->
                    StringifyRegister(Get(item.mainRegisters)[i])]
          [] k = "editStatus" -> StringifyEditStatus(Get(item.editStatus))
          [] OTHER -> item[k]]

\* JSON.parse(content) as JsonItem
JsonParse(text) ==
    [id |-> text.id, fullInvoiceName |-> text.fullInvoiceName,
     objCompany |-> text.objCompany, censoredDt |-> text.censoredDt,
     updatedDt |-> Field(text, "updatedDt"),
     mainRegisters |->
        IF "mainRegisters" \in DOMAIN text
        THEN Some([i \in 1..Len(text.mainRegisters) |-> ParseRegister(text.mainRegisters[i])])
        ELSE None,
     editStatus |->
        IF "editStatus" \in DOMAIN text
        THEN Some(ParseEditStatus(text.editStatus))
        ELSE None]

(***************************************************************************)
(* JsonFileService: the store of edited items                              *)
(***************************************************************************)
\* `${storeDir}/item_${item.id}.json`
ItemPath(id) == <<"edited_items", id>>

\* `${exportDir}/item_${item.id}_${timestamp}.json`
ExportPath(id, timestamp) == <<"exports", id, timestamp>>

\* {...item.editStatus}: spreading undefined gives no property.
SpreadEditStatus(item) ==
    IF IsSome(item.editStatus) THEN Get(item.editStatus)
    ELSE [k \in EditStatusKeys |-> None]

\* The updatedItem of saveEditedItem, the clock reading now.
SaveUpdatedItem(item, now) ==
    [item EXCEPT !.editStatus =
        Some([SpreadEditStatus(item) EXCEPT !.saved = Some(TRUE),
                                            !.lastSaved = Some(now)])]

\* ExportUpdatedItem recording no exportPath.
ExportUpdatedItemNoPath(item, now) ==
    [item EXCEPT !.editStatus =
        Some([SpreadEditStatus(item) EXCEPT !.exported = Some(TRUE),
                                            !.lastExported = Some(now)])]

\* The updatedItem of exportEditedItem.
ExportUpdatedItem(item, now) ==
    [item EXCEPT !.editStatus =
        Some([SpreadEditStatus(item) EXCEPT !.exported = Some(TRUE),
                                            !.lastExported = Some(now),
                                            !.exportPath = Some(ExportPath(item.id, now))])]

\* RNFS.writeFile(path, text): creates the file or replaces its content.
WriteFile(dir, path, text) ==
    [p \in DOMAIN dir \cup {path} |-> IF p = path THEN text ELSE dir[p]]

\* RNFS.unlink(path)
Unlink(dir, path) == [p \in DOMAIN dir \ {path} |-> dir[p]]

\* SaveWrite writing the item as it was handed in, without the stamp.
SaveWriteUnstamped(dir, item, now) ==
    WriteFile(dir, ItemPath(item.id), JsonStringify(item))

\* The edited_items directory after saveEditedItem(item).
SaveWrite(dir, item, now) ==
    WriteFile(dir, ItemPath(item.id), JsonStringify(SaveUpdatedItem(item, now)))

\* item && item.id in loadAllEditedItems: the JavaScript truth value of the
\* parsed identifier.
Truthy(id) == id # 0

\* loadAllEditedItems: the map built from the files of the directory.
LoadAllEditedItems(dir) ==
    LET parsed == { JsonParse(dir[p]) : p \in DOMAIN dir }
        kept == { item \in parsed : Truthy(item.id) }
    IN  [id \in { item.id : item \in kept } |->
            CHOOSE item \in kept : item.id = id]

\* ResetUpdatedItem clearing the status but keeping the amounts.
ResetUpdatedItemKeepAmounts(item) == [item EXCEPT !.editStatus = None]

\* The item returned by resetItemStatus.
ResetUpdatedItem(item) ==
    [item EXCEPT !.editStatus = None,
                 !.mainRegisters =
                    Some([i \in 1..Len(Get(item.mainRegisters)) |->
                            [Get(item.mainRegisters)[i] EXCEPT !.currentAmount = None]])]

\* The overlay of SecondTabScreen.loadItems on one scanned item.
MergeSaved(item, savedItemsMap) ==
    IF item.id \in DOMAIN savedItemsMap
    THEN LET savedItem == savedItemsMap[item.id]
         IN  [item EXCEPT !.mainRegisters =
                              IF IsSome(savedItem.mainRegisters)
                              THEN savedItem.mainRegisters
                              ELSE item.mainRegisters,
                          !.editStatus = savedItem.editStatus]
    ELSE item

(***************************************************************************)
(* The edited-item store in operation                                      *)
(***************************************************************************)
MaxClock == 3   \* the clock readings are 0..MaxClock

Register(name, currentAmount) ==
    [name |-> name, brand |-> "acme", totalSpace |-> 10, currentAmount |-> currentAmount]

Unedited == <<Register("r1", None), Register("r2", None)>>
Edited   == <<Register("r1", Some(7)), Register("r2", None)>>

EditIds == {0, 1, 2}

\* An edit status as an earlier export left it.
Exported(id) ==
    [saved |-> Some(TRUE), exported |-> Some(TRUE), lastSaved |-> Some(0),
     lastExported |-> Some(0), exportPath |-> Some(ExportPath(id, 0))]

\* The documents handed to save, export and reset.
EditDocs ==
    { JsonItem(id, "INV", <<"A", "c">>, "2024-01-01", None, regs, status) :
        id \in EditIds,
        regs \in {Some(Unedited), Some(Edited)},
        status \in {None} }
    \cup
    { JsonItem(id, "INV", <<"A", "c">>, "2024-01-01", None, Some(Edited), Some(Exported(id))) :
        id \in EditIds }
    \cup
    { JsonItem(1, "INV", <<"A", "c">>, "2024-01-01", None, None, None) }

\* The invoices directory next to the store: revised copies of documents 0
\* and 1 in one listing, document 2 alone in another.
EditDirectories ==
    { << ArrayFile(<< JsonItem(0, "INV rev", <<"A", "c">>, "2024-01-01", Some("2024-02-01"),
                               Some(Unedited), None),
                      JsonItem(1, "INV rev", <<"b">>, "2024-01-01", Some("2024-02-01"),
                               Some(Unedited), None) >>) >>,
      << ArrayFile(<< JsonItem(2, "INV", <<"A", "c">>, "2024-01-01", None,
                               Some(Unedited), None) >>) >> }

InitEdit ==
    /\ files \in EditDirectories
    /\ JsonFileServiceConstructed
    /\ tables = <<>>
    /\ DatabaseServiceConstructed
    /\ OneCallAtATime
    /\ last = NoCall

\* Every call reads the clock later than the call before it did; a run
\* ends when the clock reaches MaxClock.
Tick ==
    /\ clock < MaxClock
    /\ clock' = clock + 1
    /\ UNCHANGED <<dbVars, asyncVars>>

\* What a call leaves in `last` besides its result: the directories as they
\* were before it and the call that preceded it.
Before == [editStore |-> editStore, exportsDir |-> exportsDir,
           op |-> last.op, item |-> IF "item" \in DOMAIN last THEN Some(last.item) ELSE None]

\* saveEditedItem(item)
SaveEditedItem(item) ==
    /\ editStore' = SaveWrite(editStore, item, clock)
    /\ last' = [op |-> "saveEditedItem", item |-> item, before |-> Before,
                result |-> SaveUpdatedItem(item, clock)]
    /\ Tick /\ UNCHANGED <<files, exportsDir>>

\* exportEditedItem(item): writes the export file, then saves the item.
ExportEditedItem(item) ==
    LET updatedItem == ExportUpdatedItem(item, clock)
    IN  /\ exportsDir' = exportsDir \cup {ExportPath(item.id, clock)}
        /\ editStore' = SaveWrite(editStore, updatedItem, clock)
        /\ last' = [op |-> "exportEditedItem", item |-> item, before |-> Before,
                    result |-> updatedItem]
        /\ Tick /\ UNCHANGED files

\* loadAllEditedItems()
LoadAll ==
    /\ last' = [op |-> "loadAllEditedItems", before |-> Before,
                result |-> LoadAllEditedItems(editStore)]
    /\ Tick /\ UNCHANGED <<files, editStore, exportsDir>>

\* deleteSavedItem(itemId)
DeleteSavedItem(itemId) ==
    /\ editStore' = Unlink(editStore, ItemPath(itemId))
    /\ last' = [op |-> "deleteSavedItem", itemId |-> itemId, before |-> Before,
                result |-> ItemPath(itemId) \in DOMAIN editStore]
    /\ Tick /\ UNCHANGED <<files, exportsDir>>

\* resetItemStatus(item): deletes the saved file, then builds the cleared
\* item; item.mainRegisters.map throws when the item has no register list.
ResetItemStatus(item) ==
    /\ editStore' = Unlink(editStore, ItemPath(item.id))
    /\ last' = IF IsSome(item.mainRegisters)
               THEN [op |-> "resetItemStatus", item |-> item, before |-> Before,
                     threw |-> FALSE, result |-> ResetUpdatedItem(item)]
               ELSE [op |-> "resetItemStatus", item |-> item, before |-> Before,
                     threw |-> TRUE]
    /\ Tick /\ UNCHANGED <<files, exportsDir>>

\* resetAllSavedItems()
ResetAllSavedItems ==
    /\ editStore' = EmptyMap
    /\ last' = [op |-> "resetAllSavedItems", before |-> Before, result |-> TRUE]
    /\ Tick /\ UNCHANGED <<files, exportsDir>>

\* SecondTabScreen.loadItems with the search query of the screen.
LoadItems(searchQuery) ==
    LET savedItemsMap == LoadAllEditedItems(editStore)
        jsonItems == ScanJsonItems(files, [idFilter |-> None,
                                           companyFilter |-> Some(searchQuery)])
    IN  /\ last' = [op |-> "loadItems", searchQuery |-> searchQuery, before |-> Before,
                    result |-> [i \in 1..Len(jsonItems) |->
                                   MergeSaved(jsonItems[i], savedItemsMap)]]
        /\ Tick /\ UNCHANGED <<files, editStore, exportsDir>>

NextEdit ==
    \/ \E item \in EditDocs : SaveEditedItem(item)
    \/ \E item \in EditDocs : ExportEditedItem(item)
    \/ LoadAll
    \/ \E itemId \in EditIds : DeleteSavedItem(itemId)
    \/ \E item \in EditDocs : ResetItemStatus(item)
    \/ ResetAllSavedItems
    \/ \E searchQuery \in {<<>>, <<"a">>} : LoadItems(searchQuery)

SpecEdit == InitEdit /\ [][NextEdit]_vars

(***************************************************************************)
(* The edited-item store when file operations fail.  `failing` names the   *)
(* RNFS calls of one service call that reject: "exists" (RNFS.exists or    *)
(* the RNFS.mkdir after it, on the store directory), "writeFile",          *)
(* "readDir", "unlink", and for the export "exportsExists" (the exports    *)
(* directory) and "exportWrite" (the export file).  An outcome is the      *)
(* directories the call leaves, what it returns and whether it threw.      *)
(***************************************************************************)
\* The files of dir other than those at the paths gone.
Without(dir, gone) == [p \in DOMAIN dir \ gone |-> dir[p]]

\* saveEditedItem: every rejection is logged and thrown again.
SaveEditedItemOutcome(dir, item, now, failing) ==
    IF failing \cap {"exists", "writeFile"} # {}
    THEN [editStore |-> dir, result |-> item, threw |-> TRUE]
    ELSE [editStore |-> SaveWrite(dir, item, now),
          result |-> SaveUpdatedItem(item, now), threw |-> FALSE]

\* exportEditedItem: the export file is written before the item is saved,
\* and stays when the save throws.
ExportEditedItemOutcome(dir, exports, item, now, failing) ==
    LET updatedItem == ExportUpdatedItem(item, now)
        saved == SaveEditedItemOutcome(dir, updatedItem, now, failing)
    IN  IF failing \cap {"exportsExists", "exportWrite"} # {}
        THEN [editStore |-> dir, exportsDir |-> exports, result |-> item, threw |-> TRUE]
        ELSE [editStore |-> saved.editStore,
              exportsDir |-> exports \cup {ExportPath(item.id, now)},
              result |-> updatedItem, threw |-> saved.threw]

\* loadAllEditedItems stopping at the first file that cannot be read.
LoadAllEditedItemsAborting(dir, failing, unreadable) ==
    IF failing \cap {"exists", "readDir"} # {} \/ unreadable \cap DOMAIN dir # {}
    THEN [result |-> EmptyMap, threw |-> FALSE]
    ELSE [result |-> LoadAllEditedItems(dir), threw |-> FALSE]

\* loadAllEditedItems: a rejection of exists or readDir gives the empty
\* map; a file whose read rejects (the paths in unreadable) is logged and
\* passed over.
LoadAllEditedItemsOutcome(dir, failing, unreadable) ==
    IF failing \cap {"exists", "readDir"} # {}
    THEN [result |-> EmptyMap, threw |-> FALSE]
    ELSE [result |-> LoadAllEditedItems(Without(dir, unreadable)), threw |-> FALSE]

\* deleteSavedItem: false when the file is not there or a call rejects.
DeleteSavedItemOutcome(dir, itemId, failing) ==
    IF "exists" \in failing \/ ItemPath(itemId) \notin DOMAIN dir
    THEN [editStore |-> dir, result |-> FALSE, threw |-> FALSE]
    ELSE IF "unlink" \in failing
    THEN [editStore |-> dir, result |-> FALSE, threw |-> FALSE]
    ELSE [editStore |-> Unlink(dir, ItemPath(itemId)), result |-> TRUE, threw |-> FALSE]

\* resetAllSavedItems: the files are unlinked one after the other in the
\* order readDir lists them; when an unlink rejects, the files unlinked
\* before it (the paths in deleted) are gone and the result is false.
ResetAllSavedItemsOutcome(dir, failing, deleted) ==
    IF failing \cap {"exists", "readDir"} # {}
    THEN [editStore |-> dir, result |-> FALSE, threw |-> FALSE]
    ELSE IF "unlink" \in failing /\ DOMAIN dir # {}
    THEN [editStore |-> Without(dir, deleted), result |-> FALSE, threw |-> FALSE]
    ELSE [editStore |-> EmptyMap, result |-> TRUE, threw |-> FALSE]

\* The documents handed to the store in these runs.
FailingDocs ==
    { JsonItem(id, "INV", <<"A", "c">>, "2024-01-01", None, Some(Edited), None) :
        id \in {1, 2} }

BeforeCall == [editStore |-> editStore, exportsDir |-> exportsDir]

SaveEditedItemCall(item, failing) ==
    \E call \in {SaveEditedItemOutcome(editStore, item, clock, failing)} :
        /\ editStore' = call.editStore
        /\ last' = [op |-> "saveEditedItem", item |-> item, failing |-> failing,
                    before |-> BeforeCall, result |-> call.result, threw |-> call.threw]
        /\ Tick /\ UNCHANGED <<files, exportsDir>>

ExportEditedItemCall(item, failing) ==
    \E call \in {ExportEditedItemOutcome(editStore, exportsDir, item, clock, failing)} :
        /\ editStore' = call.editStore
        /\ exportsDir' = call.exportsDir
        /\ last' = [op |-> "exportEditedItem", item |-> item, failing |-> failing,
                    before |-> BeforeCall, result |-> call.result, threw |-> call.threw]
        /\ Tick /\ UNCHANGED files

LoadAllEditedItemsCall(failing, unreadable) ==
    \E call \in {LoadAllEditedItemsOutcome(editStore, failing, unreadable)} :
        /\ last' = [op |-> "loadAllEditedItems", failing |-> failing,
                    unreadable |-> unreadable, before |-> BeforeCall,
                    result |-> call.result, threw |-> call.threw]
        /\ Tick /\ UNCHANGED <<files, editStore, exportsDir>>

DeleteSavedItemCall(itemId, failing) ==
    \E call \in {DeleteSavedItemOutcome(editStore, itemId, failing)} :
        /\ editStore' = call.editStore
        /\ last' = [op |-> "deleteSavedItem", itemId |-> itemId, failing |-> failing,
                    before |-> BeforeCall, result |-> call.result, threw |-> call.threw]
        /\ Tick /\ UNCHANGED <<files, exportsDir>>

ResetAllSavedItemsCall(failing, deleted) ==
    \E call \in {ResetAllSavedItemsOutcome(editStore, failing, deleted)} :
        /\ editStore' = call.editStore
        /\ last' = [op |-> "resetAllSavedItems", failing |-> failing,
                    before |-> BeforeCall, result |-> call.result, threw |-> call.threw]
        /\ Tick /\ UNCHANGED <<files, exportsDir>>

\* The proper subsets of the store's paths: what an interrupted
\* resetAllSavedItems may have unlinked.
ProperSubsets(S) == { T \in SUBSET S : T # S }

NextFailing ==
    \/ \E item \in FailingDocs, failing \in {{}, {"exists"}, {"writeFile"}} :
          SaveEditedItemCall(item, failing)
    \/ \E item \in FailingDocs,
          failing \in {{}, {"exportsExists"}, {"exportWrite"}, {"exists"}, {"writeFile"}} :
          ExportEditedItemCall(item, failing)
    \/ \E failing \in {{}, {"exists"}, {"readDir"}}, unreadable \in SUBSET DOMAIN editStore :
          LoadAllEditedItemsCall(failing, unreadable)
    \/ \E itemId \in {1, 2}, failing \in {{}, {"exists"}, {"unlink"}} :
          DeleteSavedItemCall(itemId, failing)
    \/ \E failing \in {{}, {"exists"}, {"readDir"}} : ResetAllSavedItemsCall(failing, {})
    \/ \E deleted \in ProperSubsets(DOMAIN editStore) :
          ResetAllSavedItemsCall({"unlink"}, deleted)

SpecFailing == InitEdit /\ [][NextFailing]_vars

(***************************************************************************)
(* The embedded store.  A table is [name, columns, rows]; rows are in      *)
(* storage (rowid) order and carry the columns id and name (the other text *)
(* columns play no part in paging or search).  A row of a table without a  *)
(* name column has name = None.                                            *)
(***************************************************************************)
\* The characters of the model in ASCII order (the BINARY collation).
Chars == <<" ", "%", "'", "0", "1", "2", "3", "4", "5", "6", "7", "8", "9",
           "A", "B", "C", "R", "S", "_", "a", "b", "c", "d", "e", "l", "m",
           "o", "p", "r", "s", "t", "u">>

CharCodes ==
    [c \in { Chars[i] : i \in 1..Len(Chars) } |-> CHOOSE i \in 1..Len(Chars) : Chars[i] = c]

CharCode(c) == CharCodes[c]

\* a < b for two strings under the BINARY collation: at the first position
\* where they differ a has the smaller character, or a is a proper prefix
\* of b.
StrLess(a, b) ==
    LET n == Min(Len(a), Len(b))
    IN  IF \A i \in 1..n : a[i] = b[i] THEN Len(a) < Len(b)
        ELSE LET d == CHOOSE i \in 1..n :
                        a[i] # b[i] /\ \A j \in 1..(i - 1) : a[j] = b[j]
             IN  CharCode(a[d]) < CharCode(b[d])

\* NULL sorts before every text.
NameLess(x, y) ==
    IF ~IsSome(y) THEN FALSE
    ELSE IF ~IsSome(x) THEN TRUE
    ELSE StrLess(Get(x), Get(y))

\* ORDER BY name: rows with equal names keep their storage order.
OrderByName(rows) ==
    LET placed == [i \in 1..Len(rows) |-> [row |-> rows[i], at |-> i]]
        sorted == SortSeq(placed,
                          LAMBDA a, b : \/ NameLess(a.row.name, b.row.name)
                                        \/ (a.row.name = b.row.name /\ a.at < b.at))
    IN  [k \in 1..Len(rows) |-> sorted[k].row]

\* LIMIT n OFFSET o
LimitOffset(rows, n, o) == Slice(rows, Min(o, Len(rows)) + 1, Min(o + n, Len(rows)))

\* x LIKE pattern: % matches any run of characters, _ any one character,
\* letters match without regard to case.
RECURSIVE Like(_, _)
Like(x, pattern) ==
    IF pattern = <<>> THEN x = <<>>
    ELSE IF Head(pattern) = "%"
         THEN \E i \in 0..Len(x) : Like(Slice(x, i + 1, Len(x)), Tail(pattern))
    ELSE IF x = <<>> THEN FALSE
    ELSE /\ \/ Head(pattern) = "_"
            \/ LowerChar(Head(pattern)) = LowerChar(Head(x))
         /\ Like(Tail(x), Tail(pattern))

HasTable(tbls, name) == \E i \in 1..Len(tbls) : tbls[i].name = name
Table(tbls, name) == tbls[CHOOSE i \in 1..Len(tbls) : tbls[i].name = name]

\* A table name that is an SQL keyword can only be written quoted.
NeedsQuotes(name) == name = "order"

\* Whether the statement runs, for the three shapes of SELECT the service
\* issues: the table must exist, an unquoted name must not be a keyword,
\* and a statement that names the column `name` needs that column.
RunsUnquoted(tbls, name, usesNameColumn) ==
    /\ HasTable(tbls, name)
    /\ ~NeedsQuotes(name)
    /\ usesNameColumn => "name" \in Table(tbls, name).columns

RunsQuoted(tbls, name, usesNameColumn) ==
    /\ HasTable(tbls, name)
    /\ usesNameColumn => "name" \in Table(tbls, name).columns

(***************************************************************************)
(* DatabaseService.  Its operations are functions of the service state S   *)
(* (the fields of the object and the tables of the store) and of what the  *)
(* environment does to the statements they issue.                          *)
(***************************************************************************)
Service ==
    [tables |-> tables, db |-> db, isDBInitialized |-> isDBInitialized,
     actualTableName |-> actualTableName, cachedTotalRecords |-> cachedTotalRecords,
     needsSampleData |-> needsSampleData, hasIndexOnName |-> hasIndexOnName]

SetService(S) ==
    /\ tables' = S.tables
    /\ db' = S.db
    /\ isDBInitialized' = S.isDBInitialized
    /\ actualTableName' = S.actualTableName
    /\ cachedTotalRecords' = S.cachedTotalRecords
    /\ needsSampleData' = S.needsSampleData
    /\ hasIndexOnName' = S.hasIndexOnName

possibleTableNames == <<"records", "data", "items", "brand", "entries", "main">>
expectedColumns == {"name", "image", "origin", "regNum", "regDate"}
AllColumns == {"id"} \cup expectedColumns

sampleSize == 200

DetectTableNameUnverified(S) ==
    LET present == { i \in 1..Len(possibleTableNames) :
                        HasTable(S.tables, possibleTableNames[i]) }
    IN  IF Len(S.tables) = 0 THEN S.actualTableName
        ELSE IF present # {}
             THEN possibleTableNames[CHOOSE i \in present : \A j \in present : i <= j]
        ELSE S.tables[1].name

\* _detectTableName: the value it leaves in actualTableName.
DetectTableName(S) ==
    LET suitable == { i \in 1..Len(possibleTableNames) :
                        /\ HasTable(S.tables, possibleTableNames[i])
                        /\ Table(S.tables, possibleTableNames[i]).columns
                              \cap expectedColumns # {} }
    IN  IF Len(S.tables) = 0 THEN S.actualTableName
        ELSE IF HasTable(S.tables, TABLE_NAME) THEN TABLE_NAME
        ELSE IF suitable # {}
             THEN possibleTableNames[CHOOSE i \in suitable : \A j \in suitable : i <= j]
        ELSE S.tables[1].name

\* _optimizeDatabase: returns early when the default table is missing;
\* otherwise creates the index on name (which fails, and is skipped, when
\* the table has no such column) and caches the row count.
OptimizeDatabase(S) ==
    IF ~HasTable(S.tables, TABLE_NAME) THEN S
    ELSE [S EXCEPT !.hasIndexOnName =
                      IF "name" \in Table(S.tables, TABLE_NAME).columns
                      THEN TRUE ELSE S.hasIndexOnName,
                   !.cachedTotalRecords = Len(Table(S.tables, TABLE_NAME).rows)]

\* The decimal digits of a positive number.
RECURSIVE Digits(_)
Digits(n) ==
    IF n < 10 THEN <<Chars[CharCode("0") + n]>>
    ELSE Digits(n \div 10) \o <<Chars[CharCode("0") + (n % 10)]>>

\* `Sample Record ${i}`
SampleName(i) ==
    <<"S", "a", "m", "p", "l", "e", " ", "R", "e", "c", "o", "r", "d", " ">> \o Digits(i)

SampleRows == [i \in 1..sampleSize |-> [id |-> i, name |-> Some(SampleName(i))]]

\* _createSampleData: creates the default table when it is missing and
\* fills it when it is empty.  The INSERT names the five text columns, so
\* it fails (and the transaction is rolled back) on a table without them.
CreateSampleData(S) ==
    LET created == IF HasTable(S.tables, TABLE_NAME) THEN S.tables
                   ELSE Append(S.tables, [name |-> TABLE_NAME, columns |-> AllColumns,
                                          rows |-> <<>>])
        t == Table(created, TABLE_NAME)
        filled == [i \in 1..Len(created) |->
                      IF created[i].name = TABLE_NAME
                      THEN [created[i] EXCEPT !.rows = SampleRows]
                      ELSE created[i]]
    IN  IF Len(t.rows) # 0
        THEN [state |-> [S EXCEPT !.tables = created], threw |-> FALSE]
        ELSE IF expectedColumns \subseteq t.columns
        THEN [state |-> [S EXCEPT !.tables = filled, !.cachedTotalRecords = sampleSize],
              threw |-> FALSE]
        ELSE [state |-> [S EXCEPT !.tables = created], threw |-> TRUE]

\* initDB.  `opened` says which of the three open attempts succeeds:
\* "asset" (createFromLocation: 1), "path" (~output.sqlite), "new" (a newly
\* created database) or "none" (all three fail and initDB throws).
InitDB(S, opened) ==
    IF IsSome(S.db) THEN [state |-> S, threw |-> FALSE]
    ELSE IF opened = "none" THEN [state |-> S, threw |-> TRUE]
    ELSE
        LET S1 == [S EXCEPT !.db = Some("output.sqlite"),
                            !.needsSampleData = S.needsSampleData \/ opened = "new"]
            S2 == [S1 EXCEPT !.actualTableName = DetectTableName(S1)]
            S3 == OptimizeDatabase(S2)
            S4 == CreateSampleData(S3)
        IN  IF S1.isDBInitialized THEN [state |-> S1, threw |-> FALSE]
            ELSE IF ~S3.needsSampleData
                 THEN [state |-> [S3 EXCEPT !.isDBInitialized = TRUE], threw |-> FALSE]
            ELSE IF S4.threw THEN [state |-> S4.state, threw |-> FALSE]
            ELSE [state |-> [S4.state EXCEPT !.isDBInitialized = TRUE], threw |-> FALSE]

\* closeDatabase
CloseDatabase(S) ==
    IF IsSome(S.db) THEN [S EXCEPT !.db = None, !.isDBInitialized = FALSE] ELSE S

\* The statements a call issues, each of which the environment may fail.
Statements == {"tableCheck", "direct", "quoted", "simple", "count"}

\* An outcome of a call is the service state it leaves, what it returns
\* and whether it threw (what it returns is then without meaning).
\* try { outcome } catch (error) { return value }
CatchRethrows(outcome, value) == outcome

Catch(outcome, value) ==
    IF outcome.threw THEN [outcome EXCEPT !.threw = FALSE, !.result = value]
    ELSE outcome

\* getTotalRecordCount on an open or closed store.  `queried` says whether
\* the call went past the cached value to the store (initDB and the
\* statements after it), `counted` whether what it returns is a count: the
\* cached one or the one its COUNT(*) statement gave.
GetTotalRecordCount(S, opened, failing) ==
    IF S.cachedTotalRecords > 0
    THEN [state |-> S, result |-> S.cachedTotalRecords, threw |-> FALSE,
          queried |-> FALSE, counted |-> TRUE]
    ELSE Catch(
        LET init == InitDB(S, opened)
            S1 == init.state
            none == [state |-> S1, result |-> 0, threw |-> FALSE,
                     queried |-> TRUE, counted |-> FALSE]
        IN  IF init.threw THEN [none EXCEPT !.threw = TRUE]
            ELSE IF "tableCheck" \in failing THEN none
            ELSE IF ~HasTable(S1.tables, TABLE_NAME) THEN none
            ELSE IF "count" \in failing THEN [none EXCEPT !.threw = TRUE]
            ELSE LET count == Len(Table(S1.tables, TABLE_NAME).rows)
                 IN  [state |-> [S1 EXCEPT !.cachedTotalRecords = count],
                      result |-> count, threw |-> FALSE,
                      queried |-> TRUE, counted |-> TRUE],
        0)

\* Math.ceil(totalCount / pageSize)
CeilDiv(totalCount, pageSize) == (totalCount + pageSize - 1) \div pageSize

EmptyResult(page) ==
    [records |-> <<>>, totalCount |-> 0, totalPages |-> 0, currentPage |-> page]

\* `${prefix} ${i}` for the fallback names "Record 1", "Result 2", ...
FallbackName(prefix, i) == prefix \o <<" ">> \o Digits(i)

\* The Record built from row i of a result set (row.id || i+1 and
\* row.name || fallback; the text columns default to '').
ToRecords(rows, prefix) ==
    [i \in 1..Len(rows) |->
        [id |-> IF rows[i].id # 0 THEN rows[i].id ELSE i,
         name |-> IF IsSome(rows[i].name) /\ Get(rows[i].name) # <<>>
                  THEN Get(rows[i].name)
                  ELSE FallbackName(prefix, i)]]

\* The ladder of page queries: the rows the first rung that runs returns,
\* and the name of that rung ("none" when every rung fails).  `pattern` is
\* the operand of WHERE name LIKE, or None for a statement without a WHERE
\* clause; a WHERE clause names the column `name`, as ORDER BY name does on
\* the first two rungs.
Ladder(S, failing, pattern, offset, pageSize) ==
    LET tbls == S.tables
        name == S.actualTableName
        filtered == IsSome(pattern)
        where(row) == filtered => (IsSome(row.name) /\ Like(Get(row.name), Get(pattern)))
        matching == SelectSeq(Table(tbls, name).rows, where)
    IN  IF "direct" \notin failing /\ RunsUnquoted(tbls, name, TRUE)
        THEN [rung |-> "direct",
              rows |-> LimitOffset(OrderByName(matching), pageSize, offset)]
        ELSE IF "quoted" \notin failing /\ RunsQuoted(tbls, name, TRUE)
        THEN [rung |-> "quoted",
              rows |-> LimitOffset(OrderByName(matching), pageSize, offset)]
        ELSE IF "simple" \notin failing /\ RunsUnquoted(tbls, name, filtered)
        THEN [rung |-> "simple",
              rows |-> LET clampedOffset == Min(offset, Len(matching))
                           endIdx == Min(clampedOffset + pageSize, Len(matching))
                       IN  Slice(matching, clampedOffset + 1, endIdx)]
        ELSE [rung |-> "none", rows |-> <<>>]

\* getRecords({page, pageSize})
GetRecords(S, page, pageSize, opened, failing) ==
    LET offset == (page - 1) * pageSize
        init == InitDB(S, opened)
        got == Ladder(init.state, failing, None, offset, pageSize)
        counted == GetTotalRecordCount(init.state, opened, failing)
    IN  Catch(
        IF init.threw
        THEN [state |-> init.state, rung |-> "none", result |-> EmptyResult(page),
              threw |-> TRUE]
        ELSE IF got.rung = "none"
        THEN [state |-> init.state, rung |-> "none", result |-> EmptyResult(page),
              threw |-> FALSE]
        ELSE [state |-> counted.state, rung |-> got.rung,
              result |-> [records |-> ToRecords(got.rows, <<"R", "e", "c", "o", "r", "d">>),
                          totalCount |-> counted.result,
                          totalPages |-> CeilDiv(counted.result, pageSize),
                          currentPage |-> page],
              threw |-> counted.threw],
        EmptyResult(page))

\* searchRecordsByName(searchText, {page, pageSize}).  The search text is
\* pasted between '% and %' into the SQL text: a quote in it ends the
\* literal early and no statement built from it parses.
SearchRecordsByName(S, searchText, page, pageSize, opened, failing) ==
    LET offset == (page - 1) * pageSize
        searchParam == <<"%">> \o searchText \o <<"%">>
        malformed == \E i \in 1..Len(searchText) : searchText[i] = "'"
        fails == IF malformed THEN failing \cup {"direct", "quoted", "simple", "count"}
                 ELSE failing
        init == InitDB(S, opened)
        S1 == init.state
        where(row) == IsSome(row.name) /\ Like(Get(row.name), searchParam)
        got == Ladder(S1, fails, Some(searchParam), offset, pageSize)
        totalCount ==
            IF "count" \notin fails /\ RunsUnquoted(S1.tables, S1.actualTableName, TRUE)
            THEN Len(SelectSeq(Table(S1.tables, S1.actualTableName).rows, where))
            ELSE Len(got.rows)
    IN  Catch(
        IF init.threw
        THEN [state |-> S1, rung |-> "none", result |-> EmptyResult(page), threw |-> TRUE]
        ELSE IF "tableCheck" \notin fails /\ ~HasTable(S1.tables, TABLE_NAME)
        THEN [state |-> S1, rung |-> "none", result |-> EmptyResult(page), threw |-> FALSE]
        ELSE IF got.rung = "none"
        THEN [state |-> S1, rung |-> "none", result |-> EmptyResult(page), threw |-> FALSE]
        ELSE [state |-> S1, rung |-> got.rung,
              result |-> [records |-> ToRecords(got.rows, <<"R", "e", "s", "u", "l", "t">>),
                          totalCount |-> totalCount,
                          totalPages |-> CeilDiv(totalCount, pageSize),
                          currentPage |-> page],
              threw |-> FALSE],
        EmptyResult(page))

(***************************************************************************)
(* The record store in operation                                           *)
(***************************************************************************)
MaxRows == 3       \* rows of a table
MaxPage == 3       \* pages asked for are 1..MaxPage
MaxPageSize == 2   \* page sizes asked for are 1..MaxPageSize

\* Row names in storage order; under the BINARY collation they sort as
\* "Ab" < "B" < "aB" < "a_" < "b".
NamePool == << <<"b">>, <<"A", "b">>, <<"a", "_">>, <<"a", "B">>, <<"B">> >>

NamedRows(n) == [i \in 1..n |-> [id |-> i, name |-> Some(NamePool[i])]]
UnnamedRows(n) == [i \in 1..n |-> [id |-> i, name |-> None]]

NamedTable(name, n) == [name |-> name, columns |-> AllColumns, rows |-> NamedRows(n)]
OtherTable(name, n) == [name |-> name, columns |-> {"id", "title"}, rows |-> UnnamedRows(n)]

\* The store as bundled: no table; one table of brand records under the
\* expected name, under a candidate name or under a keyword; a table of
\* another shape; or such a table next to a candidate.
Databases ==
    { <<>> }
    \cup { <<NamedTable(name, n)>> : name \in {"records", "data"}, n \in 0..MaxRows }
    \cup { <<NamedTable("order", MaxRows)>> }
    \cup { <<OtherTable("misc", MaxRows)>>,
           <<OtherTable("misc", 1), NamedTable("items", MaxRows)>> }

SearchTexts == { <<"a">>, <<"A", "B">>, <<"_">>, <<"'">> }

\* What the environment fails in one call.
Failures ==
    { {}, {"direct"}, {"direct", "quoted"}, {"direct", "quoted", "simple"},
      {"count"}, {"tableCheck"} }

\* The open attempt that succeeds when a call finds the store closed.
Opened == IF IsSome(db) THEN {"asset"} ELSE {"asset", "path", "none"}

InitDb ==
    /\ files = <<>>
    /\ JsonFileServiceConstructed
    /\ tables \in Databases
    /\ DatabaseServiceConstructed
    /\ OneCallAtATime
    /\ last = NoCall

GetRecordsCall(page, pageSize, opened, failing) ==
    \E call \in {GetRecords(Service, page, pageSize, opened, failing)} :
        /\ SetService(call.state)
        /\ last' = [op |-> "getRecords", page |-> page, pageSize |-> pageSize,
                    failing |-> failing, opened |-> opened, rung |-> call.rung,
                    result |-> call.result, threw |-> call.threw]
        /\ UNCHANGED <<fileVars, asyncVars>>

SearchCall(searchText, page, pageSize, opened, failing) ==
    \E call \in {SearchRecordsByName(Service, searchText, page, pageSize, opened, failing)} :
        /\ SetService(call.state)
        /\ last' = [op |-> "searchRecordsByName", searchText |-> searchText,
                    page |-> page, pageSize |-> pageSize,
                    failing |-> failing, opened |-> opened, rung |-> call.rung,
                    result |-> call.result, threw |-> call.threw]
        /\ UNCHANGED <<fileVars, asyncVars>>

CountCall(opened, failing) ==
    \E call \in {GetTotalRecordCount(Service, opened, failing)} :
        /\ SetService(call.state)
        /\ last' = [op |-> "getTotalRecordCount", failing |-> failing,
                    opened |-> opened, result |-> call.result, threw |-> call.threw,
                    queried |-> call.queried, counted |-> call.counted]
        /\ UNCHANGED <<fileVars, asyncVars>>

CloseCall ==
    /\ IsSome(db)
    /\ SetService(CloseDatabase(Service))
    /\ last' = [op |-> "closeDatabase"]
    /\ UNCHANGED <<fileVars, asyncVars>>

NextDb ==
    \/ \E page \in 1..MaxPage, pageSize \in 1..MaxPageSize, opened \in Opened,
          failing \in Failures : GetRecordsCall(page, pageSize, opened, failing)
    \/ \E searchText \in SearchTexts, page \in 1..MaxPage, pageSize \in 1..MaxPageSize,
          opened \in Opened, failing \in Failures :
            SearchCall(searchText, page, pageSize, opened, failing)
    \/ \E opened \in Opened, failing \in {{}, {"count"}, {"tableCheck"}} :
            CountCall(opened, failing)
    \/ CloseCall

SpecDb == InitDb /\ [][NextDb]_vars

(***************************************************************************)
(* The record store when no bundled database can be opened and initDB      *)
(* creates one ("new"), which sets the flag that asks for sample data.     *)
(***************************************************************************)
defaultPageSize == 20

\* What initDB may find at the default location: nothing, an empty table
\* under the expected name or under a candidate name, or records.
SampleDatabases ==
    { <<>>, <<NamedTable("records", 0)>>, <<NamedTable("data", 0)>>,
      <<NamedTable("records", MaxRows)>> }

SampleOpened == IF IsSome(db) THEN {"asset"} ELSE {"asset", "new", "none"}

InitSample ==
    /\ files = <<>>
    /\ JsonFileServiceConstructed
    /\ tables \in SampleDatabases
    /\ DatabaseServiceConstructed
    /\ OneCallAtATime
    /\ last = NoCall

NextSample ==
    \/ \E page \in {1, 10, 11}, opened \in SampleOpened,
          failing \in {{}, {"direct", "quoted"}} :
            GetRecordsCall(page, defaultPageSize, opened, failing)
    \/ \E searchText \in {<<"1", "9">>, <<"R", "E">>}, page \in {1, 2},
          opened \in SampleOpened :
            SearchCall(searchText, page, defaultPageSize, opened, {})
    \/ \E opened \in SampleOpened : CountCall(opened, {})
    \/ CloseCall

SpecSample == InitSample /\ [][NextSample]_vars

(***************************************************************************)
(* Table detection over the stores initDB may find: up to MaxTables user   *)
(* tables, in sqlite_master order, each with or without the expected       *)
(* columns.                                                                *)
(***************************************************************************)
MaxTables == 2

DetectNames == {"records", "data", "items", "main", "misc"}

DetectTables ==
    { [name |-> name, columns |-> columns, rows |-> <<>>] :
        name \in DetectNames, columns \in {AllColumns, {"id", "title"}} }

DetectDatabases ==
    { T \in SeqsUpTo(DetectTables, MaxTables) :
        \A i, j \in 1..Len(T) : T[i].name = T[j].name => i = j }

DetectOpened == IF IsSome(db) THEN {"asset"} ELSE {"asset", "path", "new", "none"}

InitDetect ==
    /\ files = <<>>
    /\ JsonFileServiceConstructed
    /\ tables \in DetectDatabases
    /\ DatabaseServiceConstructed
    /\ OneCallAtATime
    /\ last = NoCall

NextDetect ==
    \/ \E opened \in DetectOpened : CountCall(opened, {})
    \/ CloseCall

SpecDetect == InitDetect /\ [][NextDetect]_vars

(***************************************************************************)
(* The record list screens, HomeScreen and BrandSearchScreen.  A handler   *)
(* reads the React state its component captured at the last render and     *)
(* sets the state of the next one; loadMoreData awaits the service between  *)
(* its guard and its state updates, so it is two steps: the fetch it        *)
(* issues is in flight in between.                                          *)
(***************************************************************************)
DEFAULT_PAGE_SIZE == 25

MaxListed == 26
MaxLoads == 2

\* query.trim()
Trim(query) ==
    LET inked == { i \in 1..Len(query) : query[i] # " " }
        first == CHOOSE i \in inked : \A j \in inked : i <= j
        final == CHOOSE i \in inked : \A j \in inked : j <= i
    IN  IF inked = {} THEN <<>> ELSE SubSeq(query, first, final)

\* What a render captures: the constants the handlers close over and the
\* props of RecordTable (which shows the list only when it has records).
Snapshot(sc) ==
    [searchQuery |-> sc.searchQuery, isSearching |-> sc.isSearching,
     pagination |-> sc.pagination, loadingMore |-> sc.loadingMore,
     loading |-> sc.loading,
     listed |-> /\ sc.records # <<>>
                /\ ~(sc.loading /\ ~sc.refreshing /\ ~sc.loadingMore)]

\* The screen as its useState calls initialise it.
Mounted(which, initialBrand) ==
    LET sc == [mounted |-> which, records |-> <<>>, searchQuery |-> initialBrand,
               isSearching |-> FALSE, loading |-> TRUE, refreshing |-> FALSE,
               pagination |-> [currentPage |-> 1, totalPages |-> 1, totalCount |-> 0,
                               pageSize |-> DEFAULT_PAGE_SIZE],
               loadingMore |-> FALSE, fetches |-> <<>>, loads |-> 0]
    IN  [f \in DOMAIN sc \cup {"rendered"} |->
            IF f = "rendered" THEN Snapshot(sc) ELSE sc[f]]

\* setRecords(result.records); setPagination({...result, pageSize}); and
\* in the finally block setLoading(false)
Shown(sc, result, pageSize) ==
    [sc EXCEPT !.loading = FALSE,
               !.records = result.records,
               !.pagination = [currentPage |-> result.currentPage,
                               totalPages |-> result.totalPages,
                               totalCount |-> result.totalCount,
                               pageSize |-> pageSize]]

\* HomeScreen.loadData: the first page of the plain listing.
LoadData(sc, S, opened, failing) ==
    LET pageSize == sc.rendered.pagination.pageSize
        call == GetRecords(S, 1, pageSize, opened, failing)
    IN  [screen |-> [Shown(sc, call.result, pageSize) EXCEPT !.refreshing = FALSE],
         state |-> call.state, called |-> <<"getRecords">>]

\* The branch of handleSearch that searches: the first page of the search.
Searched(sc, S, query, pageSize, opened, failing) ==
    LET call == SearchRecordsByName(S, query, 1, pageSize, opened, failing)
    IN  [screen |-> Shown([sc EXCEPT !.searchQuery = query], call.result, pageSize),
         state |-> call.state, called |-> <<"searchRecordsByName">>]

HandleSearchWithoutBlankCheck(sc, S, query, opened, failing) ==
    Searched(sc, S, query, DEFAULT_PAGE_SIZE, opened, failing)

\* HomeScreen.handleSearch(query)
HomeScreenHandleSearch(sc, S, query, opened, failing) ==
    IF Trim(query) = <<>>
    THEN LoadData([sc EXCEPT !.searchQuery = query, !.isSearching = FALSE],
                  S, opened, failing)
    ELSE Searched([sc EXCEPT !.isSearching = TRUE], S, query,
                  sc.rendered.pagination.pageSize, opened, failing)

\* BrandSearchScreen.handleSearch(query)
BrandSearchScreenHandleSearch(sc, S, query, opened, failing) ==
    IF Trim(query) = <<>>
    THEN [screen |-> [sc EXCEPT !.searchQuery = query, !.records = <<>>,
                                !.loading = FALSE,
                                !.pagination = [currentPage |-> 1, totalPages |-> 0,
                                                totalCount |-> 0,
                                                pageSize |-> DEFAULT_PAGE_SIZE]],
          state |-> S, called |-> <<>>]
    ELSE Searched(sc, S, query, DEFAULT_PAGE_SIZE, opened, failing)

\* handleSearch(query) of the mounted screen.
HandleSearch(sc, S, query, opened, failing) ==
    IF sc.mounted = "home"
    THEN HomeScreenHandleSearch(sc, S, query, opened, failing)
    ELSE BrandSearchScreenHandleSearch(sc, S, query, opened, failing)

\* loadMoreData up to its await: the guard, on the state the handler
\* captured, and the fetch of the next page.  HomeScreen searches when it
\* is searching for a query that is not blank; BrandSearchScreen always.
LoadMoreData(sc) ==
    LET r == sc.rendered
        nextPage == r.pagination.currentPage + 1
        searches == \/ sc.mounted = "brand"
                    \/ r.isSearching /\ Trim(r.searchQuery) # <<>>
    IN  IF r.pagination.currentPage >= r.pagination.totalPages \/ r.loadingMore
        THEN sc
        ELSE [sc EXCEPT !.loadingMore = TRUE,
                        !.loads = @ + 1,
                        !.fetches = Append(@, [kind |-> "more", page |-> nextPage,
                                               pageSize |-> r.pagination.pageSize,
                                               query |-> IF searches THEN Some(r.searchQuery)
                                                         ELSE None])]

\* RecordTable.handleEndReached: the list's end-reached callback.
HandleEndReached(sc) ==
    LET r == sc.rendered
    IN  IF r.pagination.currentPage < r.pagination.totalPages /\ ~r.loadingMore
        THEN LoadMoreData(sc)
        ELSE sc

\* loadMoreData after its await: the page is appended, the current page
\* becomes the fetched one, the busy flag is cleared.
LoadedMore(sc, fetch, result) ==
    [sc EXCEPT !.records = @ \o result.records,
               !.pagination.currentPage = fetch.page,
               !.loadingMore = FALSE,
               !.fetches = Tail(@)]

\* The stores the screens are mounted on: no table, a table of one page,
\* a table of more than one page.
ScreenDatabases ==
    { <<>>, <<NamedTable(TABLE_NAME, 1)>>,
      <<[name |-> TABLE_NAME, columns |-> AllColumns,
         rows |-> SubSeq(SampleRows, 1, MaxListed)]>> }

ScreenQueries == { <<>>, <<" ">>, <<"R", "e">> }

ScreenOpened == IF IsSome(db) THEN {"asset"} ELSE {"asset", "none"}

InitScreen ==
    /\ files = <<>>
    /\ JsonFileServiceConstructed
    /\ tables \in ScreenDatabases
    /\ DatabaseServiceConstructed
    /\ screen \in {Mounted("home", <<>>), Mounted("brand", <<>>)}
    /\ calls = <<>>
    /\ connections = [opened |-> 0, sinceClose |-> 0, closes |-> 0, used |-> {}]
    /\ last = NoCall

\* The mount effect of HomeScreen, and its retry button.
LoadDataCall(opened) ==
    /\ screen.mounted = "home"
    /\ \E done \in {LoadData(screen, Service, opened, {})} :
        /\ screen' = done.screen
        /\ SetService(done.state)
        /\ last' = [op |-> "loadData", opened |-> opened, failing |-> {},
                    called |-> done.called]
    /\ UNCHANGED <<fileVars, calls, connections>>

HandleSearchCall(query, opened) ==
    /\ \E done \in {HandleSearch(screen, Service, query, opened, {})} :
        /\ screen' = done.screen
        /\ SetService(done.state)
        /\ last' = [op |-> "handleSearch", query |-> query, opened |-> opened,
                    failing |-> {}, called |-> done.called]
    /\ UNCHANGED <<fileVars, calls, connections>>

\* The Load More button, shown under a list that has more data and is not
\* loading, or the end-reached callback of a list.
LoadMoreCall(via) ==
    /\ screen.rendered.listed
    /\ screen.loads < MaxLoads
    /\ via = "button" =>
          /\ screen.rendered.pagination.currentPage
                < screen.rendered.pagination.totalPages
          /\ ~screen.rendered.loadingMore
    /\ \E next \in {IF via = "button" THEN LoadMoreData(screen)
                    ELSE HandleEndReached(screen)} :
        /\ screen' = next
        /\ last' = [op |-> "loadMoreData", via |-> via,
                    inFlight |-> Len(screen.fetches),
                    issued |-> Len(next.fetches) > Len(screen.fetches),
                    shown |-> Len(screen.records)]
    /\ UNCHANGED <<fileVars, dbVars, calls, connections>>

\* The fetch of a loadMoreData in flight resolves.
LoadMoreResolves(opened) ==
    /\ screen.fetches # <<>>
    /\ LET fetch == Head(screen.fetches)
       IN  \E call \in {IF IsSome(fetch.query)
                        THEN SearchRecordsByName(Service, Get(fetch.query), fetch.page,
                                                 fetch.pageSize, opened, {})
                        ELSE GetRecords(Service, fetch.page, fetch.pageSize, opened, {})} :
            /\ screen' = LoadedMore(screen, fetch, call.result)
            /\ SetService(call.state)
            /\ last' = [op |-> "loadMoreResolved", page |-> fetch.page,
                        inFlight |-> Len(screen.fetches),
                        appended |-> Len(call.result.records)]
    /\ UNCHANGED <<fileVars, calls, connections>>

\* React renders the component again: the handlers now capture the state
\* set since the last render.
Render ==
    /\ screen.rendered # Snapshot(screen)
    /\ screen' = [screen EXCEPT !.rendered = Snapshot(screen)]
    /\ UNCHANGED <<fileVars, dbVars, calls, connections, last>>

NextScreen ==
    \/ \E opened \in ScreenOpened : LoadDataCall(opened)
    \/ \E query \in ScreenQueries, opened \in ScreenOpened : HandleSearchCall(query, opened)
    \/ \E via \in {"button", "endReached"} : LoadMoreCall(via)
    \/ \E opened \in ScreenOpened : LoadMoreResolves(opened)
    \/ Render

SpecScreen == InitScreen /\ [][NextScreen]_vars

(***************************************************************************)
(* The record list screens with their awaits.  Every handler that calls    *)
(* the service runs up to its await, the call is then in flight, and the   *)
(* rest of the handler runs when the call resolves; other handlers run in  *)
(* between.                                                                *)
(***************************************************************************)
MaxPending == 2

\* setLoading(true) and the call of the service, up to its await.
Awaiting(sc, kind, query, pageSize) ==
    [sc EXCEPT !.loading = TRUE,
               !.fetches = Append(@, [kind |-> kind, page |-> 1, pageSize |-> pageSize,
                                      query |-> query])]

\* HomeScreen.loadData up to its await.
LoadDataIssued(sc) == Awaiting(sc, "list", None, sc.rendered.pagination.pageSize)

\* HomeScreen.onRefresh up to the await of loadData.
OnRefreshIssued(sc) ==
    LoadDataIssued([sc EXCEPT !.refreshing = TRUE, !.searchQuery = <<>>,
                              !.isSearching = FALSE])

\* handleSearch(query) of the mounted screen up to its await; the blank
\* query of BrandSearchScreen awaits nothing.
HandleSearchIssued(sc, query) ==
    IF sc.mounted = "home"
    THEN IF Trim(query) = <<>>
         THEN LoadDataIssued([sc EXCEPT !.searchQuery = query, !.isSearching = FALSE])
         ELSE Awaiting([sc EXCEPT !.searchQuery = query, !.isSearching = TRUE],
                       "search", Some(query), sc.rendered.pagination.pageSize)
    ELSE IF Trim(query) = <<>>
         THEN [sc EXCEPT !.searchQuery = query, !.records = <<>>, !.loading = FALSE,
                         !.pagination = [currentPage |-> 1, totalPages |-> 0,
                                         totalCount |-> 0,
                                         pageSize |-> DEFAULT_PAGE_SIZE]]
         ELSE Awaiting([sc EXCEPT !.searchQuery = query], "search", Some(query),
                       DEFAULT_PAGE_SIZE)

\* The rest of the handler that awaited fetch i, on its result.
Settled(sc, i, result) ==
    LET fetch == sc.fetches[i]
        rest == [sc EXCEPT !.fetches = SubSeq(@, 1, i - 1) \o SubSeq(@, i + 1, Len(@))]
    IN  IF fetch.kind = "more"
        THEN [rest EXCEPT !.records = @ \o result.records,
                          !.pagination.currentPage = fetch.page,
                          !.loadingMore = FALSE]
        ELSE IF fetch.kind = "list"
        THEN [Shown(rest, result, fetch.pageSize) EXCEPT !.refreshing = FALSE]
        ELSE Shown(rest, result, fetch.pageSize)

\* HomeScreen has run its mount effect, which calls loadData;
\* BrandSearchScreen is mounted without an initial brand.
InitPending ==
    /\ files = <<>>
    /\ JsonFileServiceConstructed
    /\ tables \in ScreenDatabases \ {<<>>}
    /\ DatabaseServiceConstructed
    /\ screen \in {LoadDataIssued(Mounted("home", <<>>)), Mounted("brand", <<>>)}
    /\ calls = <<>>
    /\ connections = [opened |-> 0, sinceClose |-> 0, closes |-> 0, used |-> {}]
    /\ last = NoCall

\* The refresh action of the header, disabled while the screen is loading.
RefreshPressed ==
    /\ screen.mounted = "home"
    /\ ~screen.rendered.loading
    /\ Len(screen.fetches) < MaxPending
    /\ screen' = OnRefreshIssued(screen)
    /\ last' = [op |-> "onRefresh", inFlight |-> Len(screen.fetches)]
    /\ UNCHANGED <<fileVars, dbVars, calls, connections>>

\* The text of the search bar changes.
SearchTextChanged(query) ==
    /\ Len(screen.fetches) < MaxPending
    /\ query # screen.rendered.searchQuery
    /\ screen' = HandleSearchIssued(screen, query)
    /\ last' = [op |-> "handleSearch", query |-> query, inFlight |-> Len(screen.fetches)]
    /\ UNCHANGED <<fileVars, dbVars, calls, connections>>

\* The call of fetch i resolves; the environment fails the statements in
\* `failing`.
Resolves(i, failing) ==
    /\ i \in 1..Len(screen.fetches)
    /\ LET fetch == screen.fetches[i]
       IN  \E call \in {IF IsSome(fetch.query)
                        THEN SearchRecordsByName(Service, Get(fetch.query), fetch.page,
                                                 fetch.pageSize, "asset", failing)
                        ELSE GetRecords(Service, fetch.page, fetch.pageSize, "asset",
                                        failing)} :
            /\ screen' = Settled(screen, i, call.result)
            /\ SetService(call.state)
            /\ last' = [op |-> "resolved", kind |-> fetch.kind, page |-> fetch.page,
                        query |-> fetch.query, failing |-> failing,
                        inFlight |-> Len(screen.fetches),
                        shown |-> Len(screen.records),
                        from |-> screen.pagination.currentPage,
                        appended |-> Len(call.result.records)]
    /\ UNCHANGED <<fileVars, calls, connections>>

NextPending ==
    \/ RefreshPressed
    \/ \E query \in ScreenQueries : SearchTextChanged(query)
    \/ \E via \in {"button", "endReached"} : LoadMoreCall(via)
    \/ \E i \in 1..(MaxPending + MaxLoads) :
          \E failing \in IF i <= Len(screen.fetches) /\ screen.fetches[i].kind = "more"
                         THEN {{}, {"direct", "quoted", "simple"}}
                         ELSE {{}} :
            Resolves(i, failing)
    \/ Render

SpecPending == InitPending /\ [][NextPending]_vars

(***************************************************************************)
(* initDB under interleaving.  A service call runs initDB up to an await,  *)
(* and other calls run while the awaited promise is pending.  The          *)
(* positions of a call: "idle" (not running), "opening" (at the await of   *)
(* openDatabase), "initializing" (at the awaits of the initialization      *)
(* block), "returned" (initDB has returned a connection and the call is    *)
(* about to run its statements on it).                                     *)
(***************************************************************************)
MaxCalls == 2
MaxConnections == 2

Idle == [pc |-> "idle", op |-> "none", handle |-> None, began |-> 0]

InitOpen ==
    /\ files = <<>>
    /\ JsonFileServiceConstructed
    /\ tables \in { <<>>, <<NamedTable(TABLE_NAME, 1)>> }
    /\ DatabaseServiceConstructed
    /\ screen = NoScreen
    /\ calls = [c \in 1..MaxCalls |-> Idle]
    /\ connections = [opened |-> 0, sinceClose |-> 0, closes |-> 0, used |-> {}]
    /\ last = NoCall

\* A call starts and enters initDB: `if (this.db) return this.db`, else on
\* to openDatabase.  getTotalRecordCount returns a cached count greater
\* than 0 without entering initDB.
Begin(c, op) ==
    /\ calls[c].pc = "idle"
    /\ calls' = [calls EXCEPT ![c] =
                    IF op = "getTotalRecordCount" /\ cachedTotalRecords > 0 THEN Idle
                    ELSE [pc |-> IF IsSome(db) THEN "returned" ELSE "opening",
                          op |-> op, handle |-> db, began |-> connections.closes]]
    /\ last' = [op |-> op, call |-> c, step |-> "begin"]
    /\ UNCHANGED <<fileVars, dbVars, screen, connections>>

\* openDatabase resolves with a new connection, which initDB assigns to
\* this.db; or every attempt is rejected and initDB throws.
OpenResolves(c, opened) ==
    /\ calls[c].pc = "opening"
    /\ IF opened = "none"
       THEN /\ calls' = [calls EXCEPT ![c] = Idle]
            /\ UNCHANGED <<dbVars, connections>>
       ELSE /\ connections.opened < MaxConnections
            /\ LET handle == connections.opened + 1
               IN  /\ db' = Some(handle)
                   /\ connections' = [connections EXCEPT !.opened = handle,
                                                         !.sinceClose = @ + 1]
                   /\ calls' = [calls EXCEPT ![c] =
                                   [@ EXCEPT !.pc = IF isDBInitialized THEN "returned"
                                                    ELSE "initializing",
                                             !.handle = Some(handle)]]
            /\ UNCHANGED <<tables, isDBInitialized, actualTableName,
                           cachedTotalRecords, needsSampleData, hasIndexOnName>>
    /\ last' = [op |-> calls[c].op, call |-> c, step |-> "open", opened |-> opened]
    /\ UNCHANGED <<fileVars, screen>>

\* The initialization block runs (its steps return at once when this.db
\* is null) and initDB returns this.db as it is then.
Initialized(c) ==
    /\ calls[c].pc = "initializing"
    /\ LET S2 == [Service EXCEPT !.actualTableName = DetectTableName(Service)]
           S3 == IF IsSome(db) THEN OptimizeDatabase(S2) ELSE Service
       IN  SetService([S3 EXCEPT !.isDBInitialized = TRUE])
    /\ calls' = [calls EXCEPT ![c] = [@ EXCEPT !.pc = "returned", !.handle = db]]
    /\ last' = [op |-> calls[c].op, call |-> c, step |-> "initialized"]
    /\ UNCHANGED <<fileVars, screen, connections>>

\* The call runs its statements on the connection initDB returned to it
\* (on null they throw and the call returns its empty result).
Runs(c) ==
    /\ calls[c].pc = "returned"
    /\ connections' =
          IF IsSome(calls[c].handle) /\ calls[c].began = connections.closes
          THEN [connections EXCEPT !.used = @ \cup {Get(calls[c].handle)}]
          ELSE connections
    /\ calls' = [calls EXCEPT ![c] = Idle]
    /\ last' = [op |-> calls[c].op, call |-> c, step |-> "runs",
                handle |-> calls[c].handle]
    /\ UNCHANGED <<fileVars, dbVars, screen>>

\* closeDatabase: a new period between closes starts.
Closes ==
    /\ IsSome(db)
    /\ SetService(CloseDatabase(Service))
    /\ connections' = [connections EXCEPT !.sinceClose = 0, !.closes = @ + 1,
                                          !.used = {}]
    /\ last' = [op |-> "closeDatabase"]
    /\ UNCHANGED <<fileVars, screen, calls>>

NextOpen ==
    \/ \E c \in 1..MaxCalls,
          op \in {"getRecords", "searchRecordsByName", "getTotalRecordCount"} :
            Begin(c, op)
    \/ \E c \in 1..MaxCalls, opened \in {"asset", "none"} : OpenResolves(c, opened)
    \/ \E c \in 1..MaxCalls : Initialized(c)
    \/ \E c \in 1..MaxCalls : Runs(c)
    \/ Closes

SpecOpen == InitOpen /\ [][NextOpen]_vars

(***************************************************************************)
(* The invoice list and the details screen.  SecondTabScreen holds the     *)
(* merged list `items`; pressing a document mounts RegisterDetailsScreen   *)
(* with that document as the prop `item`, which stays the same object      *)
(* until the screen is left; `currentItem` is the document being edited    *)
(* and shown.                                                              *)
(***************************************************************************)
\* The mergedItems of SecondTabScreen.loadItems.
MergedItems(dir, jsonFiles, searchQuery) ==
    LET savedItemsMap == LoadAllEditedItems(dir)
        jsonItems == ScanJsonItems(jsonFiles, [idFilter |-> None,
                                               companyFilter |-> Some(searchQuery)])
    IN  [i \in 1..Len(jsonItems) |-> MergeSaved(jsonItems[i], savedItemsMap)]

\* SecondTabScreen.handleItemUpdated: the list with updatedItem in the
\* place of the document of the same identifier.
HandleItemUpdated(items, updatedItem) ==
    [i \in 1..Len(items) |->
        IF items[i].id = updatedItem.id THEN updatedItem ELSE items[i]]

\* SecondTabScreen showing the list.
ListShown(items) ==
    [mounted |-> "second", items |-> items, showDetails |-> FALSE]

\* RegisterDetailsScreen as it mounts on the pressed document.
DetailsShown(items, item) ==
    [mounted |-> "second", items |-> items, showDetails |-> TRUE,
     item |-> item, currentItem |-> item, isChanged |-> FALSE]

\* The register list of handleAmountChange: the registers of the name and
\* brand of `register` get the amount.
AmountChanged(registers, register, amount) ==
    [i \in 1..Len(registers) |->
        IF registers[i].name = register.name /\ registers[i].brand = register.brand
        THEN [registers[i] EXCEPT !.currentAmount = amount]
        ELSE registers[i]]

\* handleDiscard: the document set as currentItem and reported to the
\* parent, {...item} of the prop.
DiscardedItem(item) == item

InitDetails ==
    /\ files \in EditDirectories
    /\ JsonFileServiceConstructed
    /\ tables = <<>>
    /\ DatabaseServiceConstructed
    /\ screen = ListShown(<<>>)
    /\ calls = <<>>
    /\ connections = [opened |-> 0, sinceClose |-> 0, closes |-> 0, used |-> {}]
    /\ last = NoCall

\* What the screens' handlers leave alone besides the directories.
DetailsFrame == UNCHANGED <<files, dbVars, calls, connections>>

\* loadItems, on mount and on the Scan Files button.
LoadItemsCall ==
    /\ screen.mounted = "second" /\ ~screen.showDetails
    /\ screen' = ListShown(MergedItems(editStore, files, <<>>))
    /\ last' = [op |-> "loadItems"]
    /\ UNCHANGED <<editStore, exportsDir, clock>>
    /\ DetailsFrame

\* handleItemPress(item) on a row of the list.
HandleItemPress(i) ==
    /\ screen.mounted = "second" /\ ~screen.showDetails
    /\ i \in 1..Len(screen.items)
    /\ screen' = DetailsShown(screen.items, screen.items[i])
    /\ last' = [op |-> "handleItemPress"]
    /\ UNCHANGED <<editStore, exportsDir, clock>>
    /\ DetailsFrame

\* handleBackFromDetails
HandleBackFromDetails ==
    /\ screen.mounted = "second" /\ screen.showDetails
    /\ screen' = ListShown(screen.items)
    /\ last' = [op |-> "handleBackFromDetails"]
    /\ UNCHANGED <<editStore, exportsDir, clock>>
    /\ DetailsFrame

\* handleAmountChange(register, amount) on a register of the document.
HandleAmountChange(r, amount) ==
    /\ screen.mounted = "second" /\ screen.showDetails
    /\ IsSome(screen.currentItem.mainRegisters)
    /\ r \in 1..Len(Get(screen.currentItem.mainRegisters))
    /\ LET registers == Get(screen.currentItem.mainRegisters)
       IN  screen' = [screen EXCEPT
                         !.currentItem.mainRegisters =
                             Some(AmountChanged(registers, registers[r], amount)),
                         !.isChanged = TRUE]
    /\ last' = [op |-> "handleAmountChange"]
    /\ UNCHANGED <<editStore, exportsDir, clock>>
    /\ DetailsFrame

\* The screen after handleSave got `saved` from saveEditedItem: a thrown
\* save is caught and leaves the document and the list as they were.
Saved(sc, saved) ==
    IF saved.threw THEN sc
    ELSE [sc EXCEPT !.currentItem = saved.result,
                    !.isChanged = FALSE,
                    !.items = HandleItemUpdated(sc.items, saved.result)]

\* handleSave from the menu (the entry is disabled while nothing changed).
HandleSave(failing) ==
    /\ screen.mounted = "second" /\ screen.showDetails
    /\ screen.isChanged
    /\ clock < MaxClock
    /\ \E saved \in {SaveEditedItemOutcome(editStore, screen.currentItem, clock, failing)} :
          /\ editStore' = saved.editStore
          /\ screen' = Saved(screen, saved)
          /\ last' = [op |-> "handleSave", failing |-> failing, threw |-> saved.threw]
    /\ clock' = clock + 1
    /\ UNCHANGED exportsDir
    /\ DetailsFrame

\* handleExport: saves first when there are changes, then exports the
\* currentItem of the render the handler was created in.
HandleExport(failing) ==
    /\ screen.mounted = "second" /\ screen.showDetails
    /\ clock + 1 < MaxClock
    /\ LET saved == SaveEditedItemOutcome(editStore, screen.currentItem, clock, failing)
           storeAfterSave == IF screen.isChanged THEN saved.editStore ELSE editStore
           afterSave == IF screen.isChanged THEN Saved(screen, saved) ELSE screen
       IN  \E exported \in {ExportEditedItemOutcome(storeAfterSave, exportsDir,
                                                    screen.currentItem, clock + 1, failing)} :
              /\ editStore' = exported.editStore
              /\ exportsDir' = exported.exportsDir
              /\ screen' = IF exported.threw THEN afterSave
                           ELSE [afterSave EXCEPT
                                    !.currentItem = exported.result,
                                    !.items = HandleItemUpdated(afterSave.items,
                                                                exported.result)]
              /\ last' = [op |-> "handleExport", failing |-> failing,
                          threw |-> exported.threw]
    /\ clock' = clock + 2
    /\ UNCHANGED <<files, dbVars, calls, connections>>

\* handleDiscard, from the Discard button of the dialog; the menu entry
\* that opens the dialog is there when currentItem has an editStatus.
HandleDiscard(failing) ==
    /\ screen.mounted = "second" /\ screen.showDetails
    /\ IsSome(screen.currentItem.editStatus)
    /\ \E deleted \in {DeleteSavedItemOutcome(editStore, screen.item.id, failing)} :
          /\ editStore' = deleted.editStore
          /\ screen' = [screen EXCEPT
                           !.currentItem = DiscardedItem(screen.item),
                           !.isChanged = FALSE,
                           !.items = HandleItemUpdated(screen.items,
                                                       DiscardedItem(screen.item))]
          /\ last' = [op |-> "handleDiscard", item |-> screen.item, failing |-> failing,
                      deleted |-> deleted.result,
                      reported |-> DiscardedItem(screen.item)]
    /\ UNCHANGED <<exportsDir, clock>>
    /\ DetailsFrame

NextDetails ==
    \/ LoadItemsCall
    \/ \E i \in 1..2 : HandleItemPress(i)
    \/ HandleBackFromDetails
    \/ \E r \in 1..2, amount \in {None, Some(7)} : HandleAmountChange(r, amount)
    \/ \E failing \in {{}, {"writeFile"}} : HandleSave(failing)
    \/ \E failing \in {{}, {"writeFile"}, {"exportWrite"}} : HandleExport(failing)
    \/ \E failing \in {{}, {"unlink"}} : HandleDiscard(failing)

SpecDetails == InitDetails /\ [][NextDetails]_vars

(***************************************************************************)
(* Properties of scanJsonItems                                             *)
(***************************************************************************)
\* The documents of the directory in the order the scan meets them.
RECURSIVE AllItems(_)
AllItems(jsonFiles) ==
    IF jsonFiles = <<>> THEN <<>>
    ELSE ReadJsonFile(Head(jsonFiles)) \o AllItems(Tail(jsonFiles))

\* The positions, in meeting order, of the copies of id that pass the filters.
Copies(items, options, id) ==
    { i \in 1..Len(items) : items[i].id = id /\ PassesFilters(items[i], options) }

PassingIds(items, options) ==
    { items[i].id : i \in { j \in 1..Len(items) : PassesFilters(items[j], options) } }

IsLatest(items, copies, i) ==
    \A j \in copies : Get(EffectiveDate(items[j])) <= Get(EffectiveDate(items[i]))

Reverse(s) == [i \in 1..Len(s) |-> s[Len(s) + 1 - i]]

EffectiveDates(result) == [i \in 1..Len(result) |-> <<result[i].id, EffectiveDate(result[i])>>]

\* C1: a scan returns exactly one document for each identifier that occurs
\* among the documents passing the filters; that document is one of the
\* copies and its effective timestamp (updatedDt if present, otherwise
\* censoredDt) is the maximum over the copies; enumerating the files in the
\* opposite order gives the same identifiers with the same timestamps.
C1_OnePerIdLatest ==
    last.op = "scanJsonItems" =>
        LET items == AllItems(files)
            result == last.result
            ids == PassingIds(items, last.options)
        IN  /\ { result[i].id : i \in 1..Len(result) } = ids
            /\ Len(result) = Cardinality(ids)
            /\ \A i \in 1..Len(result) :
                  LET copies == Copies(items, last.options, result[i].id)
                  IN  \E c \in copies : /\ items[c] = result[i]
                                         /\ IsLatest(items, copies, c)
            /\ EffectiveDates(ScanJsonItems(Reverse(files), last.options))
                  = EffectiveDates(result)

\* C1 witness: an identifier has an older copy in the second file and a
\* newer one in the first, and the scan returned the newer one.
C1_Witness ==
    /\ last.op = "scanJsonItems"
    /\ Len(files) = 2
    /\ \E a \in 1..Len(files[1].items), b \in 1..Len(files[2].items) :
          /\ files[1].items[a].id = files[2].items[b].id
          /\ PassesFilters(files[1].items[a], last.options)
          /\ PassesFilters(files[2].items[b], last.options)
          /\ DateGreater(EffectiveDate(files[1].items[a]), EffectiveDate(files[2].items[b]))
          /\ \E i \in 1..Len(last.result) :
                /\ last.result[i].id = files[1].items[a].id
                /\ EffectiveDate(last.result[i]) = EffectiveDate(files[1].items[a])

\* C2: when several copies of an identifier share the maximum effective
\* timestamp, the scan returns the one met first in file-enumeration order
\* (and first within a file): a later copy replaces the accumulated one
\* only when its timestamp is strictly later.
C2_TieKeepsFirst ==
    last.op = "scanJsonItems" =>
        LET items == AllItems(files)
            result == last.result
        IN  \A i \in 1..Len(result) :
              LET copies == Copies(items, last.options, result[i].id)
                  first == CHOOSE c \in copies :
                              /\ IsLatest(items, copies, c)
                              /\ \A e \in copies : IsLatest(items, copies, e) => c <= e
              IN  result[i] = items[first]

\* C2 witness: two different copies of an identifier tie for the latest
\* timestamp, and the scan returned the earlier-met one.
C2_Witness ==
    /\ last.op = "scanJsonItems"
    /\ LET items == AllItems(files)
       IN  \E i \in 1..Len(last.result) :
             LET copies == Copies(items, last.options, last.result[i].id)
             IN  \E c, e \in copies :
                   /\ c < e
                   /\ items[c] # items[e]
                   /\ IsLatest(items, copies, c)
                   /\ IsLatest(items, copies, e)
                   /\ last.result[i] = items[c]

(***************************************************************************)
(* Properties of the edited-item store                                     *)
(***************************************************************************)
\* The edit record persisted for an identifier, if there is one.
HasRecord(dir, id) == ItemPath(id) \in DOMAIN dir
Record(dir, id) == JsonParse(dir[ItemPath(id)])

\* Every file other than the one of id is the same in both directories.
OthersUnchanged(dirBefore, dirAfter, id) ==
    \A p \in (DOMAIN dirBefore \cup DOMAIN dirAfter) \ {ItemPath(id)} :
        /\ p \in DOMAIN dirBefore
        /\ p \in DOMAIN dirAfter
        /\ dirAfter[p] = dirBefore[p]

ItemFields == {"id", "fullInvoiceName", "objCompany", "censoredDt", "updatedDt", "mainRegisters"}

Amounts(item) ==
    IF IsSome(item.mainRegisters)
    THEN Some([i \in 1..Len(Get(item.mainRegisters)) |-> Get(item.mainRegisters)[i].currentAmount])
    ELSE None

\* C3: after save(d) the store holds exactly one record for d.id; it equals
\* the document save returned, which is d with editStatus.saved = true and
\* a lastSaved stamp and the other editStatus fields as d had them; an
\* earlier record for d.id is replaced and the records of the other
\* identifiers are unchanged.
C3_SaveOverwrites ==
    last.op = "saveEditedItem" =>
        LET d == last.item
            r == last.result
        IN  /\ HasRecord(editStore, d.id)
            /\ { p \in DOMAIN editStore : JsonParse(editStore[p]).id = d.id } = {ItemPath(d.id)}
            /\ Record(editStore, d.id) = r
            /\ \A f \in ItemFields : r[f] = d[f]
            /\ IsSome(r.editStatus)
            /\ Get(r.editStatus).saved = Some(TRUE)
            /\ IsSome(Get(r.editStatus).lastSaved)
            /\ \A k \in {"exported", "lastExported", "exportPath"} :
                  Get(r.editStatus)[k] = SpreadEditStatus(d)[k]
            /\ OthersUnchanged(last.before.editStore, editStore, d.id)

\* C3 witness: a save replaced an earlier, different record of the same
\* identifier while another identifier had a record too.
C3_Witness ==
    /\ last.op = "saveEditedItem"
    /\ HasRecord(last.before.editStore, last.item.id)
    /\ Record(last.before.editStore, last.item.id).mainRegisters # last.item.mainRegisters
    /\ IsSome(last.item.editStatus)
    /\ \E id \in EditIds \ {last.item.id} : HasRecord(editStore, id)

\* C4: save(d) followed by loadAll() yields a mapping that contains d.id,
\* whatever integer d.id is (0 included), and the mapped document's
\* registers carry exactly the currentAmount values that were saved.
C4_SaveThenLoadAll ==
    (last.op = "loadAllEditedItems" /\ last.before.op = "saveEditedItem") =>
        LET d == Get(last.before.item)
        IN  /\ d.id \in DOMAIN last.result
            /\ Amounts(last.result[d.id]) = Amounts(d)

\* C5: after export(d) the persisted record of d.id has saved = true and
\* exported = true, lastExported set, and exportPath equal to the path of
\* the export file the call wrote, which is in the exports directory.
C5_ExportPersisted ==
    last.op = "exportEditedItem" =>
        /\ HasRecord(editStore, last.item.id)
        /\ LET e == Record(editStore, last.item.id).editStatus
           IN  /\ IsSome(e)
               /\ Get(e).saved = Some(TRUE)
               /\ Get(e).exported = Some(TRUE)
               /\ IsSome(Get(e).lastExported)
               /\ IsSome(Get(e).exportPath)
               /\ Get(Get(e).exportPath) \in exportsDir
               /\ exportsDir \ last.before.exportsDir = {Get(Get(e).exportPath)}

\* C5 witness: an export of a document that had been exported before, made
\* when the exports directory already held a file.
C5_Witness ==
    /\ last.op = "exportEditedItem"
    /\ last.before.exportsDir # {}
    /\ IsSome(last.item.editStatus)
    /\ Get(Get(last.item.editStatus).exportPath)
          # Get(Get(Record(editStore, last.item.id).editStatus).exportPath)

C7_Overlay ==
    last.op = "loadItems" =>
        LET jsonItems == ScanJsonItems(files, [idFilter |-> None,
                                               companyFilter |-> Some(last.searchQuery)])
            result == last.result
        IN  /\ Len(result) = Len(jsonItems)
            /\ \A i \in 1..Len(result) :
                  LET item == jsonItems[i]
                  IN  IF HasRecord(editStore, item.id)
                      THEN LET saved == Record(editStore, item.id)
                           IN  /\ result[i].mainRegisters =
                                     (IF IsSome(saved.mainRegisters)
                                      THEN saved.mainRegisters ELSE item.mainRegisters)
                               /\ result[i].editStatus = saved.editStatus
                               /\ \A f \in ItemFields \ {"mainRegisters"} :
                                     result[i][f] = item[f]
                      ELSE result[i] = item

(***************************************************************************)
(* Properties of the record store                                          *)
(***************************************************************************)
\* The table a page was read from, after a call that read one.
ServedRows == Table(tables, actualTableName).rows

\* C8: with nothing failing in the environment, getRecords(p, s) over the
\* N rows of the table it reads returns min(s, max(0, N - (p-1)*s)) records
\* with totalCount = N and totalPages = ceil(N / s), beyond the last page
\* too.
C8_PageArithmetic ==
    (last.op = "getRecords" /\ last.failing = {} /\ last.rung # "none") =>
        LET N == Len(ServedRows)
            p == last.page
            s == last.pageSize
        IN  /\ Len(last.result.records) = Min(s, Max(0, N - (p - 1) * s))
            /\ last.result.totalCount = N
            /\ last.result.totalPages = CeilDiv(N, s)

\* C9: every page getRecords returns is the p-th slice of the table
\* ordered by name ascending, whichever rung of the ladder produced it.
C9_PageOrderedByName ==
    (last.op = "getRecords" /\ last.rung # "none") =>
        last.result.records =
            ToRecords(LimitOffset(OrderByName(ServedRows), last.pageSize,
                                  (last.page - 1) * last.pageSize),
                      <<"R", "e", "c", "o", "r", "d">>)

\* The rows of the served table whose name contains the term, letters
\* compared without regard to case.
Containing(term) ==
    { i \in 1..Len(ServedRows) :
        /\ IsSome(ServedRows[i].name)
        /\ Includes(ToLowerCase(Get(ServedRows[i].name)), ToLowerCase(term)) }

RECURSIVE TotalLen(_, _)
TotalLen(pages, n) == IF n = 0 THEN 0 ELSE Len(pages[n]) + TotalLen(pages, n - 1)

\* C10: with nothing failing in the environment, a search for a term that
\* k row names of the served table contain returns totalCount = k, and the
\* records of pages 1..ceil(k / pageSize) together are exactly those k rows.
C10_SearchFindsSubstring ==
    (/\ last.op = "searchRecordsByName"
     /\ last.failing = {}
     /\ IsSome(db)
     /\ HasTable(tables, actualTableName)
     /\ "name" \in Table(tables, actualTableName).columns) =>
        LET term == last.searchText
            s == last.pageSize
            k == Cardinality(Containing(term))
            pages == [p \in 1..CeilDiv(k, s) |->
                        SearchRecordsByName(Service, term, p, s, "asset", {}).result.records]
        IN  /\ last.result.totalCount = k
            /\ TotalLen(pages, CeilDiv(k, s)) = k
            /\ UNION { { pages[p][i].id : i \in 1..Len(pages[p]) } : p \in 1..CeilDiv(k, s) }
                  = { ServedRows[i].id : i \in Containing(term) }

PageOps == {"getRecords", "searchRecordsByName"}

WellFormed(result, page, pageSize) ==
    /\ DOMAIN result = {"records", "totalCount", "totalPages", "currentPage"}
    /\ Len(result.records) <= pageSize
    /\ result.totalCount \in Nat
    /\ result.totalPages = CeilDiv(result.totalCount, pageSize)
    /\ result.currentPage = page

\* C11: getRecords, searchRecordsByName and getTotalRecordCount never
\* throw: whatever fails (the open, the table check, the rungs of the page
\* query, the count query) each returns a well-formed result, which is the
\* empty page with totals 0 (or the count 0) when the open or every rung
\* fails.
C11_NeverThrows ==
    /\ last.op \in PageOps =>
          /\ ~last.threw
          /\ WellFormed(last.result, last.page, last.pageSize)
          /\ (last.opened = "none" \/ {"direct", "quoted", "simple"} \subseteq last.failing)
                => last.result = EmptyResult(last.page)
    /\ last.op = "getTotalRecordCount" =>
          /\ ~last.threw
          /\ last.result \in Nat
          /\ (last.opened = "none" /\ cachedTotalRecords = 0) => last.result = 0

C11_Witness ==
    /\ last.op = "getRecords"
    /\ last.opened = "none"
    /\ "count" \in last.failing
    /\ last.result = EmptyResult(last.page)

(***************************************************************************)
(* Further properties of scanJsonItems                                     *)
(***************************************************************************)
NoFilters == [idFilter |-> None, companyFilter |-> None]

\* The files with every document that fails the filters taken out.
WithoutFailing(jsonFiles, options) ==
    [f \in 1..Len(jsonFiles) |->
        [jsonFiles[f] EXCEPT
            !.items = SelectSeq(jsonFiles[f].items,
                                LAMBDA item : PassesFilters(item, options))]]

\* C12: the filters are applied to each document before the merge
\* comparison: a filtered scan equals the unfiltered scan of the same files
\* without the documents that fail the filters.
C12_FilterBeforeMerge ==
    last.op = "scanJsonItems" =>
        last.result = ScanJsonItems(WithoutFailing(files, last.options), NoFilters)

\* C12 witness: a copy that passes the filters is followed by a newer copy
\* of the same identifier that fails them, and the scan returned the
\* passing copy.
C12_Witness ==
    /\ last.op = "scanJsonItems"
    /\ LET items == AllItems(files)
       IN  \E c, e \in 1..Len(items) :
             /\ c < e
             /\ items[c].id = items[e].id
             /\ PassesFilters(items[c], last.options)
             /\ ~PassesFilters(items[e], last.options)
             /\ DateGreater(EffectiveDate(items[e]), EffectiveDate(items[c]))
             /\ \E i \in 1..Len(last.result) : last.result[i] = items[c]

\* C13: the list a scan returns is strictly ascending by identifier
\* (sorted, and no identifier twice).
C13_StrictlyAscending ==
    last.op = "scanJsonItems" =>
        \A i \in 1..(Len(last.result) - 1) : last.result[i].id < last.result[i + 1].id

\* C13 witness: the scan met a document of a larger identifier before one
\* of a smaller identifier, met an identifier twice, and returned both
\* identifiers.
C13_Witness ==
    /\ last.op = "scanJsonItems"
    /\ Len(last.result) = 2
    /\ LET items == AllItems(files)
       IN  /\ \E c, e \in 1..Len(items) :
                /\ c < e
                /\ items[c].id > items[e].id
                /\ PassesFilters(items[c], last.options)
                /\ PassesFilters(items[e], last.options)
           /\ \E c, e \in 1..Len(items) :
                /\ c < e
                /\ items[c].id = items[e].id
                /\ PassesFilters(items[c], last.options)
                /\ PassesFilters(items[e], last.options)

\* The files that hold an array of documents, in directory order.
WellFormedFiles(jsonFiles) == SelectSeq(jsonFiles, LAMBDA file : file.kind = "array")

\* C14: a file that cannot be read or parsed, or whose content is not an
\* array of documents, does not abort the scan: the result is that of
\* scanning the remaining well-formed files in the same order.
C14_BadFileSkipped ==
    last.op = "scanJsonItems" =>
        last.result = ScanJsonItems(WellFormedFiles(files), last.options)

(***************************************************************************)
(* Properties of the edited-item store under failing file operations       *)
(***************************************************************************)
Propagating == {"saveEditedItem", "exportEditedItem"}

\* save and export throw when a file operation fails; delete and resetAll
\* return false and never throw; loadAll never throws.
FailuresOutsideLoadAll ==
    /\ (last.op \in Propagating /\ last.failing # {}) => last.threw
    /\ last.op \in {"deleteSavedItem", "resetAllSavedItems"} =>
          /\ ~last.threw
          /\ last.failing # {} => last.result = FALSE
    /\ last.op = "loadAllEditedItems" => ~last.threw

\* A file operation of the last loadAllEditedItems call failed.
LoadAllFailed ==
    \/ last.failing # {}
    \/ last.unreadable \cap DOMAIN last.before.editStore # {}

\* C15 as stated: file I/O failures are thrown on by save and export, and
\* swallowed by the bulk operations: on a failure loadAll returns an empty
\* mapping, resetAll returns false and delete returns false, and none of
\* the three ever throws.
C15_FailuresAsStated ==
    /\ FailuresOutsideLoadAll
    /\ (last.op = "loadAllEditedItems" /\ LoadAllFailed) => last.result = EmptyMap

\* C15 amended: as stated, except that loadAll returns the empty mapping
\* only when the store directory cannot be examined or listed; a record
\* file that cannot be read is passed over and the records of the other
\* files are returned.
C15_FailuresSwallowed ==
    /\ FailuresOutsideLoadAll
    /\ last.op = "loadAllEditedItems" =>
          IF last.failing # {} THEN last.result = EmptyMap
          ELSE last.result =
                  LoadAllEditedItems(Without(last.before.editStore, last.unreadable))

\* C15 witness: loadAll ran on a store of two records, the file of one of
\* them could not be read, and the mapping holds the other.
C15_Witness ==
    /\ last.op = "loadAllEditedItems"
    /\ last.failing = {}
    /\ DOMAIN last.before.editStore = {ItemPath(1), ItemPath(2)}
    /\ last.unreadable = {ItemPath(1)}
    /\ DOMAIN last.result = {2}

(***************************************************************************)
(* Properties of the sample data                                           *)
(***************************************************************************)
\* The store held no row when it was opened: every table is empty, or is
\* the default table holding the sample rows.
NoRowsWhenOpened ==
    \A i \in 1..Len(tables) :
        \/ Len(tables[i].rows) = 0
        \/ tables[i].name = TABLE_NAME /\ tables[i].rows = SampleRows

OrderedByName(records) ==
    \A i \in 1..(Len(records) - 1) :
        ~NameLess(Some(records[i + 1].name), Some(records[i].name))

\* C16: when the store is opened with no rows and the sample-data path
\* engages, then after initDB has completed getRecords(page 1, pageSize 20)
\* reports the total count 200 and returns 20 records ordered by name.
C16_SampleData ==
    (/\ last.op = "getRecords"
     /\ last.page = 1
     /\ last.pageSize = defaultPageSize
     /\ last.rung # "none"
     /\ needsSampleData
     /\ isDBInitialized
     /\ NoRowsWhenOpened) =>
        /\ last.result.totalCount = sampleSize
        /\ Len(last.result.records) = defaultPageSize
        /\ OrderedByName(last.result.records)

(***************************************************************************)
(* Properties of the cached total count                                    *)
(***************************************************************************)
\* C17: once getTotalRecordCount has computed a count (any value, 0
\* included), the next call of getTotalRecordCount, with no close of the
\* store between the two, returns that count and does not query the store.
C17_CountCachedOnce ==
    [][(/\ last.op = "getTotalRecordCount"
        /\ last.counted
        /\ last'.op = "getTotalRecordCount") =>
            (last'.result = last.result /\ ~last'.queried)]_vars

(***************************************************************************)
(* Properties of the record list screens                                   *)
(***************************************************************************)
Blank(query) == Trim(query) = <<>>

\* What the plain first-page listing returns.
FirstPage == GetRecords(Service, 1, DEFAULT_PAGE_SIZE, last.opened, last.failing).result

\* C18: in every screen that searches, a query that is empty or only
\* whitespace is not searched for and the screen shows the records
\* getRecords page 1 returns.
C18_BlankShowsListing ==
    (last.op = "handleSearch" /\ Blank(last.query)) =>
        /\ \A i \in 1..Len(last.called) : last.called[i] # "searchRecordsByName"
        /\ screen.records = FirstPage.records

\* C18, as the code has it: a blank query is searched for by neither
\* screen; HomeScreen then shows the records getRecords page 1 returns,
\* BrandSearchScreen shows no records and calls no service.
C18_BlankIsNoSearch ==
    (last.op = "handleSearch" /\ Blank(last.query)) =>
        /\ \A i \in 1..Len(last.called) : last.called[i] # "searchRecordsByName"
        /\ screen.mounted = "home" =>
              /\ last.called = <<"getRecords">>
              /\ screen.records = FirstPage.records
              /\ screen.pagination.totalCount = FirstPage.totalCount
              /\ ~screen.isSearching
        /\ screen.mounted = "brand" =>
              /\ last.called = <<>>
              /\ screen.records = <<>>
              /\ screen.pagination.totalCount = 0

C18_Witness ==
    /\ last.op = "handleSearch"
    /\ last.query = <<" ">>
    /\ screen.mounted = "home"
    /\ Len(screen.records) = DEFAULT_PAGE_SIZE
    /\ screen.rendered.isSearching

\* C20: at most one load-more fetch is in flight; an invocation of
\* loadMoreData while a fetch is in flight issues no query.
C20_OneFetchInFlight ==
    /\ Len(screen.fetches) <= 1
    /\ (last.op = "loadMoreData" /\ last.inFlight > 0) => ~last.issued

(***************************************************************************)
(* Properties of the connection                                            *)
(***************************************************************************)
\* C19: between two closes of the store, under any interleaving of the
\* calls, the database is opened at most once and every call runs its
\* statements on that same connection.
C19_OneConnection ==
    /\ connections.sinceClose <= 1
    /\ Cardinality(connections.used) <= 1

(***************************************************************************)
(* Properties of the screens' operations in flight                         *)
(***************************************************************************)
\* C21: no two store operations issued by the handlers of a screen (initial
\* load, search on text change, load more, refresh) are in flight at the
\* same time.
C21_OneOperationAtATime ==
    \A i, j \in 1..Len(screen.fetches) : i = j

\* No operation of the screen is in flight.
Quiescent == screen.fetches = <<>>

\* What the store reports for the query the search bar holds: the total of
\* the search, or of the plain listing for a blank query on HomeScreen.
TotalOf(query) ==
    IF Blank(query)
    THEN IF screen.mounted = "home"
         THEN GetRecords(Service, 1, DEFAULT_PAGE_SIZE, "asset", {}).result.totalCount
         ELSE 0
    ELSE SearchRecordsByName(Service, query, 1, DEFAULT_PAGE_SIZE, "asset", {}).result.totalCount

Matches(record, query) ==
    IF Blank(query) THEN screen.mounted = "home"
    ELSE Like(record.name, <<"%">> \o query \o <<"%">>)

\* C25: once every operation in flight has completed, the records shown
\* and the pagination totals are those of the query entered last; no
\* result of an earlier query replaces them or is appended to them.
C25_ShowsLatestQuery ==
    Quiescent =>
        /\ screen.pagination.totalCount = TotalOf(screen.searchQuery)
        /\ \A i \in 1..Len(screen.records) :
              Matches(screen.records[i], screen.searchQuery)

\* The identifiers of a list of records.
Ids(records) == { records[i].id : i \in 1..Len(records) }

\* Page `page` of the result set of the query the search bar holds, from a
\* store that fails no statement.
PageOf(query, page) ==
    IF Blank(query)
    THEN GetRecords(Service, page, DEFAULT_PAGE_SIZE, "asset", {}).result.records
    ELSE SearchRecordsByName(Service, query, page, DEFAULT_PAGE_SIZE, "asset", {}).result.records

\* A single load-more, issued for the query the search bar holds, has taken
\* the list from page 1 to the last page, 2.
LoadedToLastPage ==
    /\ last.op = "resolved"
    /\ last.kind = "more"
    /\ last.inFlight = 1
    /\ last.from = 1
    /\ last.page = 2
    /\ last.shown = DEFAULT_PAGE_SIZE
    /\ last.query = (IF Blank(screen.searchQuery) THEN None ELSE Some(screen.searchQuery))
    /\ screen.mounted = "home" \/ ~Blank(screen.searchQuery)
    /\ screen.pagination.currentPage = screen.pagination.totalPages
    /\ SubSeq(screen.records, 1, DEFAULT_PAGE_SIZE) = PageOf(screen.searchQuery, 1)

\* C26: with the query and the table unchanged, when load-more has taken
\* currentPage from 1 to totalPages the list holds every row of the result
\* set exactly once, also when a fetch returned the empty fallback result.
C26_EveryRowOnce ==
    LoadedToLastPage =>
        /\ Ids(screen.records) =
              Ids(PageOf(screen.searchQuery, 1)) \cup Ids(PageOf(screen.searchQuery, 2))
        /\ Len(screen.records) = Cardinality(Ids(screen.records))
        /\ Len(screen.records) = screen.pagination.totalCount

(***************************************************************************)
(* Properties of the query ladder                                          *)
(***************************************************************************)
\* A rung of the page ladder did not supply the rows: the environment
\* rejected its statement or the statement cannot run on the table.
DirectFailed == "direct" \in last.failing \/ ~RunsUnquoted(tables, actualTableName, TRUE)
QuotedFailed == "quoted" \in last.failing \/ ~RunsQuoted(tables, actualTableName, TRUE)

\* The rung that supplied a page was reached only after the rungs before it
\* failed.
LadderInOrder ==
    (last.op \in PageOps /\ IsSome(db)) =>
        /\ last.rung = "quoted" => DirectFailed
        /\ last.rung = "simple" => DirectFailed /\ QuotedFailed

\* C22: every read query (paged list, search, count) is attempted as the
\* direct statement, then with the table identifier quoted, then unbounded;
\* a later rung is attempted only after the one before it failed and the
\* first rung that succeeds supplies the result.  For the count: when only
\* the direct COUNT(*) statement is rejected, a later rung supplies the
\* number of rows.
C22_EveryReadClimbsTheLadder ==
    /\ LadderInOrder
    /\ (/\ last.op = "getTotalRecordCount"
        /\ last.queried
        /\ last.failing = {"count"}
        /\ IsSome(db)
        /\ HasTable(tables, TABLE_NAME)) =>
            last.result = Len(Table(tables, TABLE_NAME).rows)

\* C27: every result of getRecords and searchRecordsByName is consistent
\* in itself: no more records than totalCount, totalPages the ceiling of
\* totalCount / pageSize, and no page with records under totalCount 0.
C27_ResultConsistent ==
    last.op \in PageOps =>
        /\ Len(last.result.records) <= last.result.totalCount
        /\ last.result.totalPages = CeilDiv(last.result.totalCount, last.pageSize)
        /\ last.result.records # <<>> => last.result.totalCount > 0

(***************************************************************************)
(* Properties of table detection                                           *)
(***************************************************************************)
Candidates == <<"data", "items", "brand", "entries", "main">>

Exposes(T, name) ==
    \E i \in 1..Len(T) : T[i].name = name /\ T[i].columns \cap expectedColumns # {}

Present(T, name) == \E i \in 1..Len(T) : T[i].name = name

\* The table the detection is to resolve to on the tables T.
Resolved(T) ==
    LET fit == { k \in 1..Len(Candidates) : Exposes(T, Candidates[k]) }
    IN  IF Present(T, "records") THEN "records"
        ELSE IF fit # {} THEN Candidates[CHOOSE k \in fit : \A l \in fit : k <= l]
        ELSE T[1].name

\* The store is open and initialized on the tables it was opened with.
DetectedOn == IsSome(db) /\ isDBInitialized /\ ~needsSampleData /\ tables # <<>>

\* C23: on a non-empty set of user tables the detection resolves to
\* 'records' if it is there, otherwise to the first candidate of (data,
\* items, brand, entries, main) that is there and exposes an expected
\* column, otherwise to the first table; a candidate that exposes no
\* expected column is resolved only when it is the first table.
C23_TableDetection ==
    DetectedOn =>
        /\ actualTableName = Resolved(tables)
        /\ \A k \in 1..Len(Candidates) :
              (/\ Present(tables, Candidates[k])
               /\ ~Exposes(tables, Candidates[k])
               /\ actualTableName = Candidates[k]) => tables[1].name = Candidates[k]

C23_Witness ==
    /\ DetectedOn
    /\ Len(tables) = 2
    /\ tables[1].name = "misc"
    /\ tables[2].name = "data"
    /\ ~Exposes(tables, "data")
    /\ actualTableName = "misc"

\* The store held no user table when it was opened: it holds none now, or
\* only the sample table the initialization has created since.
OpenedWithoutTables ==
    \/ tables = <<>>
    \/ tables = <<[name |-> TABLE_NAME, columns |-> AllColumns, rows |-> SampleRows]>>

\* C24: when the detection finds no user table, the flag for sample data
\* is set and the initialization creates and fills the expected table,
\* whichever open attempt succeeded.
C24_NoTablesGetSampleData ==
    (IsSome(db) /\ OpenedWithoutTables) =>
        /\ needsSampleData
        /\ HasTable(tables, TABLE_NAME)
        /\ Table(tables, TABLE_NAME).rows = SampleRows

(***************************************************************************)
(* Filtered and unfiltered scans                                           *)
(***************************************************************************)
\* The document the unfiltered scan of the directory returns for an
\* identifier, as a sequence of at most one document.
UnfilteredFor(id) ==
    SelectSeq(ScanJsonItems(files, NoFilters), LAMBDA item : item.id = id)

\* The identifier scan returns the unfiltered scan's document with that
\* identifier, or nothing.
IdFilterSelects ==
    (last.op = "scanJsonItems" /\ IsSome(last.options.idFilter)) =>
        last.result = UnfilteredFor(Get(last.options.idFilter))

\* C28: filtering never surfaces a superseded version: each document of a
\* scan with a company filter is the document the unfiltered scan returns
\* for the same identifier, and a scan with an identifier filter returns
\* exactly the unfiltered scan's document with that identifier, or nothing.
C28_FilterNeverSurfacesSuperseded ==
    last.op = "scanJsonItems" =>
        /\ \A i \in 1..Len(last.result) :
              UnfilteredFor(last.result[i].id) = <<last.result[i]>>
        /\ IdFilterSelects

(***************************************************************************)
(* The export as one step                                                  *)
(***************************************************************************)
\* The edit record file of an identifier, as a set of at most one text.
RecordFile(dir, id) ==
    IF ItemPath(id) \in DOMAIN dir THEN {dir[ItemPath(id)]} ELSE {}

\* An export that threw added no export file and left the edit record of
\* the document as it was.
ThrownExportLeavesNothing ==
    (last.op = "exportEditedItem" /\ last.threw) =>
        /\ exportsDir = last.before.exportsDir
        /\ RecordFile(editStore, last.item.id)
              = RecordFile(last.before.editStore, last.item.id)

\* An export that returned gave back the persisted edit record.
ReturnedExportIsPersisted ==
    (last.op = "exportEditedItem" /\ ~last.threw) =>
        /\ HasRecord(editStore, last.item.id)
        /\ Record(editStore, last.item.id) = last.result

\* C29: export(d) is all-or-nothing: when it throws, no file has been
\* added to the exports directory and the edit record of d.id is unchanged;
\* when it returns, the returned document equals the persisted edit record
\* of d.id, editStatus with saved and lastSaved included.
C29_ExportAllOrNothing ==
    /\ ThrownExportLeavesNothing
    /\ ReturnedExportIsPersisted

(***************************************************************************)
(* Properties of the details screen                                        *)
(***************************************************************************)
\* The document carries no editStatus and no currentAmount value.
Cleared(item) ==
    /\ item.editStatus = None
    /\ IsSome(item.mainRegisters) =>
          \A r \in 1..Len(Get(item.mainRegisters)) :
              Get(item.mainRegisters)[r].currentAmount = None

\* C30: after a confirmed Discard has completed, no edit record of the
\* document's identifier is persisted, and the document shown and the
\* document reported to the list carry no editStatus and no currentAmount,
\* also when the document was opened with a saved overlay applied.
C30_DiscardClears ==
    last.op = "handleDiscard" =>
        /\ ~HasRecord(editStore, last.item.id)
        /\ Cleared(screen.currentItem)
        /\ Cleared(last.reported)

====
